---- MODULE Spec2Model ----
(***************************************************************************)
(* Rule evaluation engine of Insurance-OCR (check_rules package).          *)
(*                                                                         *)
(* Text is modelled as a sequence of tokens.  A token is either one        *)
(* punctuation character ("[", "(", "]", ")", ",", " ") or a run of word   *)
(* characters ("CH01", "0", "AND", "True", ...).  Two word tokens that are *)
(* adjacent in a sequence form ONE longer word of the text, exactly as     *)
(* their characters would: <<"CH10", "0">> is the text CH100.  No token is *)
(* a prefix of another, so a text has one token sequence and substring     *)
(* search on bracketed text coincides with sub-sequence search.            *)
(***************************************************************************)
EXTENDS Integers, Sequences, FiniteSets, TLC

\* ------------------------------------------------------------------------
\* Token classes
\* ------------------------------------------------------------------------

\* Rule IDs of the form CH + exactly two digits, in ascending string order.
IDOrder == <<"CH01", "CH02", "CH03", "CH04", "CH10", "CH13", "CH99">>

TwoDigitIDs == {IDOrder[i] : i \in 1..Len(IDOrder)}

Openers == {"[", "("}

Closers == {"]", ")"}

Digits == {"0"}

BoolWords == {"True", "False"}

OtherWords == {"AND"}

\* \w+ : every token made of word characters
WordTokens == TwoDigitIDs \cup Digits \cup BoolWords \cup OtherWords

\* \s : the ASCII space
Whitespace == {" "}

IsWord(t) == t \in WordTokens

\* the character class [\s\w,] of inner_group_pattern
IsContent(t) == t \in Whitespace \/ IsWord(t) \/ t = ","

\* str(True) / str(False)
BoolStr(b) == IF b THEN "True" ELSE "False"

\* ------------------------------------------------------------------------
\* str.replace
\* ------------------------------------------------------------------------

\* expression.replace(rule_id, str(status)): every occurrence of the ID's
\* characters is replaced, also inside a longer word such as CH100.
ReplaceAll(s, rule_id, rep) ==
    [i \in 1..Len(s) |-> IF s[i] = rule_id THEN rep ELSE s[i]]

RECURSIVE FirstOccurrence(_, _, _)
\* index of the first occurrence of pat in s at or after k, 0 when there is none
FirstOccurrence(s, pat, k) ==
    IF k + Len(pat) - 1 > Len(s) THEN 0
    ELSE IF SubSeq(s, k, k + Len(pat) - 1) = pat THEN k
    ELSE FirstOccurrence(s, pat, k + 1)

\* the content of the group replaced, its brackets left in the text
ReplaceFirstContent(s, pat, rep) ==
    LET content == SubSeq(pat, 2, Len(pat) - 1)
        k == FirstOccurrence(s, content, 1)
    IN  IF k = 0 THEN s
        ELSE SubSeq(s, 1, k - 1) \o rep \o SubSeq(s, k + Len(content), Len(s))

\* expression.replace(match.group(0), str(result), 1)
ReplaceFirst(s, pat, rep) ==
    LET k == FirstOccurrence(s, pat, 1) IN
    IF k = 0 THEN s
    ELSE SubSeq(s, 1, k - 1) \o rep \o SubSeq(s, k + Len(pat), Len(s))

\* ------------------------------------------------------------------------
\* inner_group_pattern = ([(\[])([\s\w,]+)([)\]])
\* ------------------------------------------------------------------------

RECURSIVE ContentEnd(_, _)
\* first index >= j whose token is outside [\s\w,]
ContentEnd(s, j) ==
    IF j <= Len(s) /\ IsContent(s[j]) THEN ContentEnd(s, j + 1) ELSE j

RECURSIVE FindIter(_, _)
\* inner_group_pattern.finditer(s) from index i: the non-overlapping matches,
\* left to right, each as <<index of opener, index of closer>>.  The closer
\* may be of either type whatever the opener is.
FindIter(s, i) ==
    IF i > Len(s) THEN <<>>
    ELSE IF s[i] \in Openers
         THEN LET j == ContentEnd(s, i + 1) IN
              IF j > i + 1 /\ j <= Len(s) /\ s[j] \in Closers
              THEN <<<<i, j>>>> \o FindIter(s, j + 1)
              ELSE FindIter(s, i + 1)
         ELSE FindIter(s, i + 1)

\* inner_group_pattern.search(s) is not None
Search(s) == FindIter(s, 1) # <<>>

\* ------------------------------------------------------------------------
\* ast.literal_eval(f"[{content}]") followed by the isinstance(x, bool) test
\* ------------------------------------------------------------------------

RECURSIVE ParseList(_, _, _, _)
\* Scan of the content of a list display.  afterItem: an element has just
\* been read and only a comma may follow.  A word is accepted only when it is
\* exactly True or False standing alone; a number, another name, or two words
\* with no comma between them make the parse or the bool test fail.
ParseList(c, i, afterItem, acc) ==
    IF i > Len(c) THEN [ok |-> TRUE, list |-> acc]
    ELSE IF c[i] \in Whitespace THEN ParseList(c, i + 1, afterItem, acc)
    ELSE IF c[i] = ","
         THEN IF afterItem THEN ParseList(c, i + 1, FALSE, acc)
              ELSE [ok |-> FALSE, list |-> <<>>]
    ELSE IF afterItem \/ c[i] \notin BoolWords
            \/ (i < Len(c) /\ IsWord(c[i + 1]))
         THEN [ok |-> FALSE, list |-> <<>>]
    ELSE ParseList(c, i + 1, TRUE, Append(acc, c[i] = "True"))

\* a content that does not parse taken for the empty list
literal_eval_lenient(content) ==
    [ok |-> TRUE, list |-> ParseList(content, 1, FALSE, <<>>).list]

\* ast.literal_eval(f"[{content}]") with the isinstance(bool) test
literal_eval(content) == ParseList(content, 1, FALSE, <<>>)

\* all(bool_list)
all(l) == \A i \in 1..Len(l) : l[i]

\* any written as all
AnyAsAll(l) == \A i \in 1..Len(l) : l[i]

\* any(bool_list)
any(l) == \E i \in 1..Len(l) : l[i]

\* ------------------------------------------------------------------------
\* _evaluate_logical_expression
\* ------------------------------------------------------------------------

RECURSIVE SubstituteNegated(_, _, _)
\* str(not status) written into the text
SubstituteNegated(e, keys, statuses) ==
    IF keys = <<>> THEN e
    ELSE SubstituteNegated(ReplaceAll(e, Head(keys), BoolStr(~statuses[Head(keys)])),
                           Tail(keys), statuses)

RECURSIVE SubstituteStatuses(_, _, _)
\* step 1: for rule_id, status in rule_statuses.items(): replace.  keys is
\* the dict's iteration order.
SubstituteStatuses(e, keys, statuses) ==
    IF keys = <<>> THEN e
    ELSE SubstituteStatuses(ReplaceAll(e, Head(keys), BoolStr(statuses[Head(keys)])),
                            Tail(keys), statuses)

\* the two bracket types taken for each other
GroupResultSwapped(operator, bool_list) ==
    IF operator = "(" THEN all(bool_list) ELSE any(bool_list)

\* AND for '[', OR for anything else
GroupResult(operator, bool_list) ==
    IF operator = "[" THEN all(bool_list) ELSE any(bool_list)

RECURSIVE ForEachMatch(_, _, _)
\* Body of "for match in inner_group_pattern.finditer(expression)".  The
\* matches ms were found in orig, the text when the for loop started; each
\* replacement is made in cur, the text as rewritten so far, at the FIRST
\* occurrence of the matched text.  failed: the function returned False.
ForEachMatch(orig, ms, cur) ==
    IF ms = <<>> THEN [failed |-> FALSE, expression |-> cur]
    ELSE LET m == Head(ms)
             operator == orig[m[1]]
             content == SubSeq(orig, m[1] + 1, m[2] - 1)
             group0 == SubSeq(orig, m[1], m[2])
             parsed == literal_eval(content)
         IN  IF ~parsed.ok THEN [failed |-> TRUE, expression |-> cur]
             ELSE ForEachMatch(orig, Tail(ms),
                               ReplaceFirst(cur, group0,
                                            <<BoolStr(GroupResult(operator, parsed.list))>>))

\* one iteration of "while inner_group_pattern.search(expression)"
WhilePass(e) == ForEachMatch(e, FindIter(e, 1), e)

RECURSIVE WhileLoop(_)
\* the whole loop followed by "return expression == 'True'"
WhileLoop(e) ==
    IF ~Search(e) THEN e = <<"True">>
    ELSE LET r == WhilePass(e) IN
         IF r.failed THEN FALSE ELSE WhileLoop(r.expression)

\* _evaluate_logical_expression(expression, rule_statuses) as a function
evaluate_logical_expression(e, keys, statuses) ==
    WhileLoop(SubstituteStatuses(e, keys, statuses))

\* ------------------------------------------------------------------------
\* evaluate_submission_logic: leaf collection
\* ------------------------------------------------------------------------

\* the pattern without its word boundaries
FindLeafIDsUnbounded(s) == {s[i] : i \in {j \in 1..Len(s) : s[j] \in TwoDigitIDs}}

\* re.findall(r'\b(CH\d{2})\b', s) as a set: an ID token with a non-word
\* character (or the end of the text) on each side
FindLeafIDs(s) ==
    {s[i] : i \in {j \in 1..Len(s) :
                      /\ s[j] \in TwoDigitIDs
                      /\ (j = 1 \/ ~IsWord(s[j - 1]))
                      /\ (j = Len(s) \/ ~IsWord(s[j + 1]))}}

\* sorted(..., reverse=True)
SortedIDsReversed(S) ==
    SelectSeq([i \in 1..Len(IDOrder) |-> IDOrder[Len(IDOrder) + 1 - i]], LAMBDA x : x \in S)

\* sorted(list(set(...)))
SortedIDs(S) == SelectSeq(IDOrder, LAMBDA x : x \in S)

\* f"{rule_id}: Rule definition not found in database."
NotFoundMessage(rule_id) == <<rule_id, ": Rule definition not found in database.">>

\* ------------------------------------------------------------------------
\* Stores
\* ------------------------------------------------------------------------

\* SQL NULL / Python None
NULL == "NULL"

\* The claim and rule stores are read by the operations below and written by
\* none of them.
VARIABLES
    Check_Rules,    \* rules.db, table Check_Rules: Rules_ID -> Rules_description
    PatientData     \* claims db, table PatientData: [columns, rows: claimid -> row]

\* ------------------------------------------------------------------------
\* fetch_rule_descriptions_for_ids_from_db
\* ------------------------------------------------------------------------

\* SELECT Rules_ID, Rules_description ... WHERE Rules_ID IN (rule_ids): the
\* IDs with no row are left out of the dict
fetch_rule_descriptions_for_ids_from_db(ids) ==
    [rid \in {ids[i] : i \in 1..Len(ids)} \cap DOMAIN Check_Rules |-> Check_Rules[rid]]

\* .get(rule_id, "Description not found.")
DictGetDefault(d, k) == IF k \in DOMAIN d THEN d[k] ELSE <<"Description", "not", "found.">>

\* rule_descriptions.get(rule_id)
DictGet(d, k) == IF k \in DOMAIN d THEN d[k] ELSE NULL

\* ------------------------------------------------------------------------
\* check_document_submission_status
\* Descriptions and column names are sequences of words and separators.
\* ------------------------------------------------------------------------

\* str.lower() on the words the stores use
Lower(w) ==
    CASE w = "Is" -> "is"
      [] w = "IS" -> "is"
      [] w = "The" -> "the"
      [] w = "Submitted" -> "submitted"
      [] w = "Claim" -> "claim"
      [] w = "Form" -> "form"
      [] w = "Aadhaar" -> "aadhaar"
      [] w = "PAN" -> "pan"
      [] w = "Check" -> "check"
      [] w = "Verify" -> "verify"
      [] w = "Not" -> "not"
      [] w = "ClaimID" -> "claimid"
      [] w = "CLM1" -> "clm1"
      [] w = "Description" -> "description"
      [] w = "None" -> "none"
      [] OTHER -> w

LowerSeq(ws) == [i \in 1..Len(ws) |-> Lower(ws[i])]

\* start indexes i of "Is the " (IGNORECASE) that are followed, after at
\* least one word, by " submitted"
IsTheStarts(d) ==
    {i \in 1..Len(d) :
        /\ i + 1 <= Len(d)
        /\ Lower(d[i]) = "is" /\ Lower(d[i + 1]) = "the"
        /\ \E j \in (i + 3)..Len(d) : Lower(d[j]) = "submitted"}

Min(S) == CHOOSE x \in S : \A y \in S : x <= y

Max(S) == CHOOSE x \in S : \A y \in S : y <= x

\* re.search(r'Is the (.*) submitted\??', keyword, re.IGNORECASE): the
\* leftmost start, the group (.*) taken greedily up to the last "submitted";
\* group(1).strip(), or the whole keyword when the pattern does not match
core_keyword(d) ==
    IF IsTheStarts(d) = {} THEN d
    ELSE LET i == Min(IsTheStarts(d))
             j == Max({k \in (i + 3)..Len(d) : Lower(d[k]) = "submitted"})
         IN  SubSeq(d, i + 2, j - 1)

RECURSIVE SpacesToUnderscores(_)
\* .replace(" ", "_"): the words are separated by one space each, which
\* becomes one underscore each; a question mark follows its word directly
SpacesToUnderscores(w) ==
    IF Len(w) <= 1 THEN w
    ELSE IF w[2] = "?" THEN <<w[1]>> \o SpacesToUnderscores(Tail(w))
    ELSE <<w[1], "_">> \o SpacesToUnderscores(Tail(w))

\* core_keyword.lower().replace(" ", "_")
normalized_keyword(d) == SpacesToUnderscores(LowerSeq(core_keyword(d)))

\* normalized_keyword in col.lower()
InColumn(kw, col) == FirstOccurrence(LowerSeq(col), kw, 1) # 0

\* the test without strip()
NonEmptyUnstripped(value) == value # NULL /\ value # ""

\* value is not None and str(value).strip() != ""
NonEmpty(value) == value # NULL /\ value \notin {"", " "}

\* the query without its WHERE clause: the first row of the table
check_document_any_claim(claim, document_keyword) ==
    IF claim = "" THEN FALSE
    ELSE IF document_keyword = <<>> THEN FALSE
    ELSE LET kw == normalized_keyword(document_keyword)
             relevant_columns == SelectSeq(PatientData.columns,
                                           LAMBDA col : InColumn(kw, col))
         IN  /\ relevant_columns # <<>>
             /\ \E c \in DOMAIN PatientData.rows :
                    \E i \in 1..Len(relevant_columns) :
                        NonEmpty(PatientData.rows[c][relevant_columns[i]])

check_document_submission_status(claim, document_keyword) ==
    IF claim = "" THEN FALSE
    ELSE IF document_keyword = <<>> THEN FALSE
    ELSE LET kw == normalized_keyword(document_keyword)
             relevant_columns == SelectSeq(PatientData.columns,
                                           LAMBDA col : InColumn(kw, col))
         IN  /\ relevant_columns # <<>>
             /\ claim \in DOMAIN PatientData.rows
             /\ \E i \in 1..Len(relevant_columns) :
                    NonEmpty(PatientData.rows[claim][relevant_columns[i]])

\* ------------------------------------------------------------------------
\* evaluate_submission_logic as a state machine
\* ------------------------------------------------------------------------

VARIABLES
    expression_string,          \* argument
    claim_id,                   \* argument
    pc,                         \* "call", "loop", "eval", "reduce", "done"
    rule_ids,                   \* sorted distinct leaf IDs; keys of rule_statuses
    rule_descriptions,          \* dict returned by the catalog
    rule_statuses,              \* dict rule_id -> bool
    failed_rules_descriptions,  \* list
    idx,                        \* position of the for loop in rule_ids
    expression,                 \* the text _evaluate_logical_expression rewrites
    final_result,               \* returned boolean
    catalog_queries,            \* number of catalog reads made by the call
    resolver_calls,             \* descriptions the resolver was called with
    tree                        \* the expression tree the text was written from

\* rules.db, table L1_Rules: [columns, rows], the rows in table order
VARIABLES L1_Rules

\* direct calls of check_document_submission_status and writes of the claim
\* store between them
VARIABLES
    doc_claim_id,       \* argument claim_id of the direct calls
    document_keyword,   \* argument document_keyword of the direct calls
    version,            \* number of writes of PatientData so far
    doc_calls           \* the calls made: [version, result]

\* get_l1_rules_with_values_for_check_id
VARIABLES
    l1_pc,              \* "idle", "call", "rows", "done"
    check_rule_id,      \* argument
    l1_claim_id,        \* argument
    rows,               \* the L1_Rules rows fetched for the check rule
    l1_idx,             \* position of "for rule_id, desc, sql_query in rows"
    results,            \* the returned list
    executed_queries,   \* extraction queries run on the claim store: [sql_query, params]
    l1_resolver_calls   \* descriptions the resolver was called with

\* evaluate_l2_rule_with_gemini
VARIABLES
    l2_pc,              \* "idle", "prompt", "generate", "parse", "done"
    l2_description,     \* argument
    l1_value,           \* argument
    l2_claim_id,        \* argument
    prompt_file,        \* the prompt template file, or that it is missing
    model,              \* what get_gemini_model and generate_content will do
    prompt,             \* the prompt built
    response,           \* response.text, or the exception raised
    evaluation,         \* what the call returned, or the exception it raised
    l2_fetched          \* ordered_fetched_data, as far as it was built

\* the reads of the rule catalog (rule_db_manager.py, sql_rule_queries.py)
VARIABLES
    rules_db,           \* the file at RULES_DB_PATH: "ok", "missing", "unreadable", "corrupt"
    Procedure_rules,    \* rules.db, table Procedure_rules: [columns, rows]
    L2_Rules,           \* rules.db, table L2_Rules: [columns, rows]
    cat_call,           \* the read in progress: [f, arg]
    cat_result          \* what the read returned or raised: [raised, value]

\* process_txt_file
VARIABLES
    claims_db,          \* the claims database: table name -> [exists, columns, rows]
    file_path,          \* the file name, without extension, of the last ingest
    replaced,           \* the rows of PatientData the last ingest deleted
    ingests             \* number of ingests so far

\* render_check_rules_page, the handler of the button Process Rules
VARIABLES
    ui_pc,                  \* the line the handler is at
    ui_claim_id,            \* the text input Claim ID
    selected_procedure,     \* the select box
    ui_expression,          \* what get_procedure_rules_expression handed back
    is_passed,              \* str of the first result of evaluate_submission_logic
    failed_rules,           \* its second result
    rule_descriptions_list, \* the check rules of the procedure
    ui_idx,                 \* position of the for loop in progress
    processed_rules_output, \* the list the for loop of line 115 appends to
    l2_rules,               \* fetch_all_l2_rules_from_db()
    l2_results,             \* the list the for loop of line 141 appends to
    fetched_rules_content_processed,    \* st.session_state, what the page shows
    l2_results_for_report               \* st.session_state, what the report shows

stores == <<Check_Rules, PatientData>>

doc_vars == <<doc_claim_id, document_keyword, version, doc_calls>>

l1_vars == <<L1_Rules, l1_pc, check_rule_id, l1_claim_id, rows, l1_idx, results,
             executed_queries, l1_resolver_calls>>

l2_vars == <<l2_pc, l2_description, l1_value, l2_claim_id, prompt_file, model, prompt,
             response, evaluation, l2_fetched>>

cat_vars == <<rules_db, Procedure_rules, L2_Rules, cat_call, cat_result>>

\* the variables of the catalog reads, of the ingest and of the request
ing_vars == <<claims_db, file_path, replaced, ingests>>

req_vars == <<ui_pc, ui_claim_id, selected_procedure, ui_expression, is_passed,
              failed_rules, rule_descriptions_list, ui_idx, processed_rules_output,
              l2_rules, l2_results, fetched_rules_content_processed,
              l2_results_for_report>>

aux_vars == <<cat_vars, ing_vars, req_vars>>

eval_vars == <<expression_string, claim_id, pc, rule_ids,
               rule_descriptions, rule_statuses, failed_rules_descriptions, idx,
               expression, final_result, catalog_queries, resolver_calls, tree>>

vars == <<Check_Rules, PatientData, expression_string, claim_id, pc, rule_ids,
          rule_descriptions, rule_statuses, failed_rules_descriptions, idx,
          expression, final_result, catalog_queries, resolver_calls, tree,
          doc_vars, l1_vars, l2_vars, aux_vars>>

\* lines 65-78: the two early returns, else the catalog read
Call ==
    /\ pc = "call"
    /\ IF expression_string = <<>>
       THEN /\ pc' = "done"
            /\ final_result' = TRUE
            /\ UNCHANGED <<rule_ids, rule_descriptions, catalog_queries>>
       ELSE LET ids == SortedIDs(FindLeafIDs(expression_string)) IN
            IF ids = <<>>
            THEN /\ pc' = "done"
                 /\ final_result' = TRUE
                 /\ rule_ids' = ids
                 /\ UNCHANGED <<rule_descriptions, catalog_queries>>
            ELSE /\ pc' = "loop"
                 /\ rule_ids' = ids
                 /\ rule_descriptions' = fetch_rule_descriptions_for_ids_from_db(ids)
                 /\ catalog_queries' = catalog_queries + 1
                 /\ UNCHANGED final_result
    /\ UNCHANGED <<doc_vars, l1_vars, l2_vars>>
    /\ UNCHANGED <<stores, expression_string, claim_id, rule_statuses,
                   failed_rules_descriptions, idx, expression, resolver_calls, tree>>
    /\ UNCHANGED aux_vars

\* lines 83-98: one iteration of "for rule_id in rule_ids"
CheckRule ==
    /\ pc = "loop"
    /\ idx <= Len(rule_ids)
    /\ LET rule_id == rule_ids[idx]
           description == DictGet(rule_descriptions, rule_id)
       IN  IF description = NULL
           THEN /\ failed_rules_descriptions' =
                       Append(failed_rules_descriptions, NotFoundMessage(rule_id))
                /\ rule_statuses' = (rule_id :> FALSE) @@ rule_statuses
                /\ UNCHANGED resolver_calls
           ELSE LET is_submitted == check_document_submission_status(claim_id, description) IN
                /\ resolver_calls' = Append(resolver_calls, description)
                /\ failed_rules_descriptions' =
                       IF is_submitted THEN failed_rules_descriptions
                       ELSE Append(failed_rules_descriptions, description)
                /\ rule_statuses' = (rule_id :> is_submitted) @@ rule_statuses
    /\ idx' = idx + 1
    /\ pc' = IF idx = Len(rule_ids) THEN "eval" ELSE "loop"
    /\ UNCHANGED <<doc_vars, l1_vars, l2_vars>>
    /\ UNCHANGED <<stores, expression_string, claim_id, rule_ids, rule_descriptions,
                   expression, final_result, catalog_queries, tree>>
    /\ UNCHANGED aux_vars

\* line 101 and lines 17-18: the call and the substitution of the leaves
Substitute ==
    /\ pc = "eval"
    /\ expression' = SubstituteStatuses(expression_string, rule_ids, rule_statuses)
    /\ pc' = "reduce"
    /\ UNCHANGED <<doc_vars, l1_vars, l2_vars>>
    /\ UNCHANGED <<stores, expression_string, claim_id, rule_ids, rule_descriptions,
                   rule_statuses, failed_rules_descriptions, idx, final_result,
                   catalog_queries, resolver_calls, tree>>
    /\ UNCHANGED aux_vars

\* lines 24-46: one iteration of the while loop
ReducePass ==
    /\ pc = "reduce"
    /\ Search(expression)
    /\ LET r == WhilePass(expression) IN
       IF r.failed
       THEN /\ final_result' = FALSE
            /\ pc' = "done"
            /\ expression' = r.expression
       ELSE /\ expression' = r.expression
            /\ UNCHANGED <<final_result, pc>>
    /\ UNCHANGED <<doc_vars, l1_vars, l2_vars>>
    /\ UNCHANGED <<stores, expression_string, claim_id, rule_ids, rule_descriptions,
                   rule_statuses, failed_rules_descriptions, idx,
                   catalog_queries, resolver_calls, tree>>
    /\ UNCHANGED aux_vars

\* line 49 (and line 103): return expression == 'True'
Return ==
    /\ pc = "reduce"
    /\ ~Search(expression)
    /\ final_result' = (expression = <<"True">>)
    /\ pc' = "done"
    /\ UNCHANGED <<doc_vars, l1_vars, l2_vars>>
    /\ UNCHANGED <<stores, expression_string, claim_id, rule_ids, rule_descriptions,
                   rule_statuses, failed_rules_descriptions, idx, expression,
                   catalog_queries, resolver_calls, tree>>
    /\ UNCHANGED aux_vars

\* is_submitted of one rule, as the for loop computes it
StatusOf(claim, rule_id) ==
    LET description == DictGet(fetch_rule_descriptions_for_ids_from_db(<<rule_id>>), rule_id)
    IN  IF description = NULL THEN FALSE
        ELSE check_document_submission_status(claim, description)

\* the boolean evaluate_submission_logic(e, claim) returns, as a function of
\* the text and the stores
submission_result(e, claim) ==
    IF e = <<>> THEN TRUE
    ELSE LET ids == SortedIDs(FindLeafIDs(e)) IN
         IF ids = <<>> THEN TRUE
         ELSE evaluate_logical_expression(e, ids,
                  [rid \in {ids[i] : i \in 1..Len(ids)} |-> StatusOf(claim, rid)])

\* ------------------------------------------------------------------------
\* get_parsed_rules_for_procedure: the ID pattern of the catalog
\* ------------------------------------------------------------------------

RECURSIVE DigitsEnd(_, _)
\* first index >= j whose token is not a digit
DigitsEnd(s, j) ==
    IF j <= Len(s) /\ s[j] \in Digits THEN DigitsEnd(s, j + 1) ELSE j

\* re.findall(r'\b(CH\d{2,})\b', raw_rules_string) as a set of words: CH, all
\* the digits that follow, and a non-word character (or the end of the text)
\* on each side.  A word is the sequence of its tokens: <<"CH10", "0">>.
ParseRuleIDs(s) ==
    {SubSeq(s, i, DigitsEnd(s, i + 1) - 1) :
        i \in {j \in 1..Len(s) :
                  /\ s[j] \in TwoDigitIDs
                  /\ (j = 1 \/ ~IsWord(s[j - 1]))
                  /\ LET e == DigitsEnd(s, j + 1) IN e > Len(s) \/ ~IsWord(s[e])}}

\* ------------------------------------------------------------------------
\* Expression trees and their text
\* ------------------------------------------------------------------------

Leaf(id) == [op |-> "leaf", id |-> id, kids |-> <<>>]

Group(op, kids) == [op |-> op, id |-> "", kids |-> kids]

NoTree == [op |-> "none", id |-> "", kids |-> <<>>]

\* leaves of the generated trees
LeafIDs == {"CH01", "CH02", "CH04"}

RECURSIVE TreesOfSize(_), ListsOfSize(_)
\* the trees with exactly n nodes (leaves and groups)
TreesOfSize(n) ==
    IF n = 1 THEN {Leaf(id) : id \in LeafIDs}
    ELSE {Group(op, l) : op \in {"and", "or"}, l \in ListsOfSize(n - 1)}

\* the non-empty lists of trees with n nodes in all
ListsOfSize(n) ==
    {<<t>> : t \in TreesOfSize(n)} \cup
    UNION {{<<t>> \o l : t \in TreesOfSize(k), l \in ListsOfSize(n - k)} : k \in 1..(n - 1)}

RECURSIVE Render(_, _), RenderList(_, _)
\* the text of a tree; sep is the text written between two elements
Render(t, sep) ==
    IF t.op = "leaf" THEN <<t.id>>
    ELSE IF t.op = "and" THEN <<"[">> \o RenderList(t.kids, sep) \o <<"]">>
    ELSE <<"(">> \o RenderList(t.kids, sep) \o <<")">>

RenderList(l, sep) ==
    IF Len(l) = 1 THEN Render(l[1], sep)
    ELSE Render(l[1], sep) \o sep \o RenderList(Tail(l), sep)

RECURSIVE EvalTree(_, _)
\* bottom-up evaluation: AND of the children, OR of the children, or the leaf
EvalTree(t, st) ==
    IF t.op = "leaf" THEN st[t.id]
    ELSE IF t.op = "and" THEN \A i \in 1..Len(t.kids) : EvalTree(t.kids[i], st)
    ELSE \E i \in 1..Len(t.kids) : EvalTree(t.kids[i], st)

RECURSIVE InsertSpaces(_, _, _)
\* s with one space written in each gap of G; gap g lies after token g, gap 0
\* before the first token
InsertSpaces(s, G, g) ==
    IF g > Len(s) THEN <<>>
    ELSE (IF g = 0 THEN <<>> ELSE <<s[g]>>) \o
         (IF g \in G THEN <<" ">> ELSE <<>>) \o InsertSpaces(s, G, g + 1)

\* ------------------------------------------------------------------------
\* Inputs
\* ------------------------------------------------------------------------

\* longest expression text, in tokens, drawn from the whole alphabet
MaxLen == 4

\* most nodes of a generated expression tree
MaxNodes == 5

\* most nodes of a tree whose text gets extra spaces, and most extra spaces
MaxSpacedNodes == 3

MaxSpaces == 2

\* most elements of a group of boolean literals
MaxElems == 3

Alphabet == {"[", "(", "]", ")", ",", " ", "CH01", "CH02", "CH10", "0"}

Strings == UNION {[1..n -> Alphabet] : n \in 0..MaxLen}

\* the expressions of the module's own test suite
test_expressions ==
    { <<"[", "CH01", ",", " ", "(", "CH02", ",", " ", "CH03", ")", "]">>,
      <<"(", "CH01", ",", " ", "CH04", ")">>,
      <<"[", "CH01", ",", " ", "(", "CH02", ",", " ", "CH13", ")", "]">>,
      <<"[", "CH01", ",", " ", "CH04", "]">>,
      <<"[", "CH01", ",", " ", "(", "CH04", ",", " ", "CH13", ")", "]">>,
      <<"[", "CH01", ",", " ", "CH99", "]">>,
      <<>>,
      <<"CH01", " ", "AND", " ", "CH02">> }

\* test_claim_id
TestClaim == "8956"

ClaimForm == <<"Is", "the", "claim", "form", "submitted", "?">>

DischargeSummary == <<"Is", "the", "discharge", "summary", "submitted", "?">>

AadhaarCard == <<"Is", "the", "Aadhaar", "card", "submitted", "?">>

PanCard == <<"PAN", "card">>

\* A catalog that describes CH01, CH02, CH03 and CH13, holds a row with a
\* NULL description for CH10 and no row for CH04 and CH99
Catalog ==
    ("CH01" :> ClaimForm) @@ ("CH02" :> DischargeSummary) @@
    ("CH03" :> AadhaarCard) @@ ("CH13" :> PanCard) @@ ("CH10" :> NULL)

Columns ==
    << <<"claim", "id">>,
       <<"claim", "_", "form", ".", "patient", "_", "name">>,
       <<"claim", "_", "form", ".", "date">>,
       <<"discharge", "_", "summary", ".", "diagnosis">>,
       <<"aadhaar", "_", "card", ".", "number">> >>

\* A row of the test claim: the claim form has two fields, of which the
\* second is always empty; the Aadhaar card is filled in
Row(claim_form, discharge_summary) ==
    (Columns[1] :> TestClaim) @@ (Columns[2] :> claim_form) @@ (Columns[3] :> NULL) @@
    (Columns[4] :> discharge_summary) @@ (Columns[5] :> "x")

Table(row) == [columns |-> Columns, rows |-> (TestClaim :> row)]

\* claim form submitted, discharge summary blank; and the reverse
TwoTables == {Table(Row("x", " ")), Table(Row(NULL, "x"))}

FourTables == {Table(Row(cf, ds)) : cf \in {"x", NULL}, ds \in {"x", " "}}

\* what the catalog read returns when the query fails: no row for any ID
NoCatalog == [rid \in {} |-> NULL]

\* the stores: the catalog with one of the tables, or the failing catalog
Stores(tables) ==
    \/ Check_Rules = Catalog /\ PatientData \in tables
    \/ Check_Rules = NoCatalog /\ PatientData = Table(Row("x", " "))

\* no direct call of the resolver has been made
DocIdle ==
    /\ doc_claim_id = ""
    /\ document_keyword = <<>>
    /\ version = 0
    /\ doc_calls = <<>>

\* no call of get_l1_rules_with_values_for_check_id is in progress
L1Idle ==
    /\ L1_Rules = [columns |-> {}, rows |-> <<>>]
    /\ l1_pc = "idle"
    /\ check_rule_id = ""
    /\ l1_claim_id = ""
    /\ rows = <<>>
    /\ l1_idx = 1
    /\ results = <<>>
    /\ executed_queries = <<>>
    /\ l1_resolver_calls = <<>>

\* no call of evaluate_l2_rule_with_gemini is in progress
L2Idle ==
    /\ l2_pc = "idle"
    /\ l2_description = <<>>
    /\ l1_value = <<>>
    /\ l2_claim_id = ""
    /\ prompt_file = "missing"
    /\ model = "none"
    /\ prompt = <<>>
    /\ response = <<>>
    /\ evaluation = <<>>
    /\ l2_fetched = <<>>

\* no read of the catalog is in progress
CatIdle ==
    /\ rules_db = "ok"
    /\ Procedure_rules = [columns |-> {}, rows |-> <<>>]
    /\ L2_Rules = [columns |-> {}, rows |-> <<>>]
    /\ cat_call = [f |-> "none", arg |-> <<>>]
    /\ cat_result = [raised |-> "none", value |-> <<>>]

\* the claims database before the first ingest
AbsentTable == [exists |-> FALSE, columns |-> {}, rows |-> <<>>]

NoClaimsDb == [t \in {"PatientData", "NonPatientData"} |-> AbsentTable]

IngIdle ==
    /\ claims_db = NoClaimsDb
    /\ file_path = <<>>
    /\ replaced = 0
    /\ ingests = 0

\* the button Process Rules has not been pressed
ReqIdle ==
    /\ ui_pc = "idle"
    /\ ui_claim_id = ""
    /\ selected_procedure = ""
    /\ ui_expression = [raised |-> "pending", value |-> [type |-> "NoneType", v |-> <<>>]]
    /\ is_passed = ""
    /\ failed_rules = <<>>
    /\ rule_descriptions_list = <<>>
    /\ ui_idx = 1
    /\ processed_rules_output = <<>>
    /\ l2_rules = <<>>
    /\ l2_results = <<>>
    /\ fetched_rules_content_processed = <<>>
    /\ l2_results_for_report = <<>>

AuxIdle == CatIdle /\ IngIdle /\ ReqIdle

InitCall(e) ==
    /\ DocIdle /\ L1Idle /\ L2Idle /\ AuxIdle
    /\ expression_string = e
    /\ claim_id = TestClaim
    /\ pc = "call"
    /\ rule_ids = <<>>
    /\ rule_descriptions = <<>>
    /\ rule_statuses = <<>>
    /\ failed_rules_descriptions = <<>>
    /\ idx = 1
    /\ expression = <<>>
    /\ final_result = FALSE
    /\ catalog_queries = 0
    /\ resolver_calls = <<>>

\* the tree of the first test expression, [CH01, (CH02, CH03)]
TestTree ==
    Group("and", <<Leaf("CH01"), Group("or", <<Leaf("CH02"), Leaf("CH03")>>)>>)

Trees == UNION {TreesOfSize(n) : n \in 1..MaxNodes} \cup {TestTree}

\* evaluate_submission_logic on any short text, on the test suite's
\* expressions and on the text of any tree
Init ==
    /\ Stores(TwoTables)
    /\ tree = NoTree
    /\ \E e \in Strings \cup test_expressions \cup {Render(t, <<",">>) : t \in Trees} :
           InitCall(e)

Next == Call \/ CheckRule \/ Substitute \/ ReducePass \/ Return

Spec == Init /\ [][Next]_vars

\* evaluate_submission_logic on the text of a tree
InitTree ==
    /\ Stores(FourTables)
    /\ tree \in Trees
    /\ \E sep \in {<<",">>, <<",", " ">>} : InitCall(Render(tree, sep))

SpecTree == InitTree /\ [][Next]_vars

\* trees with a bracket: every gap of their text is next to a bracket or comma
SpacedTrees == UNION {TreesOfSize(n) : n \in 2..MaxSpacedNodes}

\* evaluate_submission_logic on the text of a tree with spaces added
InitSpaced ==
    /\ Stores(FourTables)
    /\ tree \in SpacedTrees
    /\ LET s == Render(tree, <<",">>) IN
       \E G \in {H \in SUBSET (0..Len(s)) : Cardinality(H) <= MaxSpaces} :
           InitCall(InsertSpaces(s, G, 0))

SpecSpaced == InitSpaced /\ [][Next]_vars

\* groups of boolean literals: an opener, up to MaxElems literals separated
\* by sep, and the closer of the same type
RECURSIVE Join(_, _)
Join(l, sep) ==
    IF Len(l) = 1 THEN <<l[1]>> ELSE <<l[1]>> \o sep \o Join(Tail(l), sep)

LiteralGroups ==
    UNION {{<<b[1]>> \o Join(l, sep) \o <<b[2]>> :
               b \in {<<"[", "]">>, <<"(", ")">>},
               l \in [1..n -> BoolWords],
               sep \in {<<",">>, <<",", " ">>}} : n \in 1..MaxElems}

EvalAlphabet == {"[", "(", "]", ")", ",", " ", "True", "CH01", "0"}

EvalStrings == UNION {[1..n -> EvalAlphabet] : n \in 0..MaxLen}

\* _evaluate_logical_expression called on any text with a status for CH01
InitEval ==
    /\ DocIdle /\ L1Idle /\ L2Idle /\ AuxIdle
    /\ Check_Rules = Catalog
    /\ PatientData = Table(Row("x", " "))
    /\ tree = NoTree
    /\ expression_string \in EvalStrings \cup LiteralGroups
    /\ claim_id = TestClaim
    /\ pc = "eval"
    /\ rule_ids = <<"CH01">>
    /\ rule_descriptions = <<>>
    /\ rule_statuses \in [{"CH01"} -> BOOLEAN]
    /\ failed_rules_descriptions = <<>>
    /\ idx = 1
    /\ expression = <<>>
    /\ final_result = FALSE
    /\ catalog_queries = 0
    /\ resolver_calls = <<>>

NextEval == Substitute \/ ReducePass \/ Return

SpecEval == InitEval /\ [][NextEval]_vars

\* ------------------------------------------------------------------------
\* check_document_submission_status called directly, with writes of the
\* claim store between the calls
\* ------------------------------------------------------------------------

MaxCalls == 2

MaxWrites == 1

\* the canonical form in capitals and without its question mark
ShoutedClaimForm == <<"IS", "The", "Claim", "Form", "Submitted">>

\* no document between "the" and "submitted": the pattern does not match
NoDocument == <<"Is", "the", "submitted", "?">>

ClaimWord == <<"claim">>

Keywords ==
    {ClaimForm, DischargeSummary, AadhaarCard, PanCard, ShoutedClaimForm,
     NoDocument, ClaimWord, <<>>}

OtherClaim == "1234"

\* the test claim, a second claim with a row, a claim without row, no claim
DocClaims == {TestClaim, OtherClaim, "0000", ""}

\* a row of the claim store
ClaimRow(claim, patient_name, date, diagnosis, number) ==
    (Columns[1] :> claim) @@ (Columns[2] :> patient_name) @@ (Columns[3] :> date) @@
    (Columns[4] :> diagnosis) @@ (Columns[5] :> number)

\* the second claim submitted its claim form only
OtherRow == ClaimRow(OtherClaim, "y", NULL, NULL, "")

\* the rows process_txt_file can write for the test claim
TestRows ==
    {ClaimRow(TestClaim, n, d, g, NULL) :
        n \in {NULL, "", " ", "x"}, d \in {NULL, "x"}, g \in {" ", "x"}}

\* no claims database, or no table PatientData in it
NoTable == [columns |-> <<>>, rows |-> [c \in {} |-> <<>>]]

ClaimTables ==
    {[columns |-> Columns, rows |-> (TestClaim :> r) @@ (OtherClaim :> OtherRow)] :
        r \in TestRows}
    \cup {[columns |-> Columns, rows |-> (OtherClaim :> OtherRow)], NoTable}

\* a call that blanks what it has read
StoreAfterCheckCleared(pd) ==
    [pd EXCEPT !.rows = [c \in DOMAIN pd.rows |->
                            [col \in DOMAIN pd.rows[c] |-> NULL]]]

\* the claim store after "finally: conn.close()": the call only reads
StoreAfterCheck(pd) == pd

\* one call of check_document_submission_status(claim_id, document_keyword)
CheckDocument ==
    /\ Len(doc_calls) < MaxCalls
    /\ doc_calls' = Append(doc_calls,
           [version |-> version,
            result |-> check_document_submission_status(doc_claim_id, document_keyword)])
    /\ PatientData' = StoreAfterCheck(PatientData)
    /\ UNCHANGED <<Check_Rules, doc_claim_id, document_keyword, version,
                   eval_vars, l1_vars, l2_vars>>
    /\ UNCHANGED aux_vars

\* _write_df_to_table(conn, df_patient, "PatientData", claim): the rows of
\* the claim are deleted and the new row is appended; the table is created
\* when it does not exist
WriteClaim ==
    /\ version < MaxWrites
    /\ \E r \in {ClaimRow(TestClaim, "x", NULL, " ", NULL),
                  ClaimRow(TestClaim, NULL, " ", "x", NULL)} :
           PatientData' = [columns |-> Columns,
                           rows |-> (TestClaim :> r) @@ PatientData.rows]
    /\ version' = version + 1
    /\ UNCHANGED <<Check_Rules, doc_claim_id, document_keyword, doc_calls,
                   eval_vars, l1_vars, l2_vars>>
    /\ UNCHANGED aux_vars

\* no call of evaluate_submission_logic is in progress
EvalIdle ==
    /\ expression_string = <<>>
    /\ claim_id = ""
    /\ pc = "idle"
    /\ rule_ids = <<>>
    /\ rule_descriptions = <<>>
    /\ rule_statuses = <<>>
    /\ failed_rules_descriptions = <<>>
    /\ idx = 1
    /\ expression = <<>>
    /\ final_result = FALSE
    /\ catalog_queries = 0
    /\ resolver_calls = <<>>
    /\ tree = NoTree

InitDoc ==
    /\ Check_Rules = Catalog
    /\ PatientData \in ClaimTables
    /\ doc_claim_id \in DocClaims
    /\ document_keyword \in Keywords
    /\ version = 0
    /\ doc_calls = <<>>
    /\ EvalIdle /\ L1Idle /\ L2Idle /\ AuxIdle

NextDoc == CheckDocument \/ WriteClaim

SpecDoc == InitDoc /\ [][NextDoc]_vars

\* ------------------------------------------------------------------------
\* The grammar of the expression mini-language
\* ------------------------------------------------------------------------

RECURSIVE SkipSpaces(_, _)
SkipSpaces(s, i) ==
    IF i <= Len(s) /\ s[i] \in Whitespace THEN SkipSpaces(s, i + 1) ELSE i

RECURSIVE ParseExpr(_, _), ParseElems(_, _, _)
\* index after the expression that starts at i, spaces skipped; 0 when no
\* expression starts there.  A leaf is CH and two or more digits.
ParseExpr(s, i) ==
    LET j == SkipSpaces(s, i) IN
    IF j > Len(s) THEN 0
    ELSE IF s[j] \in TwoDigitIDs
         THEN LET e == DigitsEnd(s, j + 1) IN
              IF e <= Len(s) /\ IsWord(s[e]) THEN 0 ELSE e
    ELSE IF s[j] = "[" THEN ParseElems(s, j + 1, "]")
    ELSE IF s[j] = "(" THEN ParseElems(s, j + 1, ")")
    ELSE 0

\* index after the closer of a group whose elements start at i, 0 when the
\* text is no element list followed by that closer
ParseElems(s, i, closer) ==
    LET e == ParseExpr(s, i) IN
    IF e = 0 THEN 0
    ELSE LET j == SkipSpaces(s, e) IN
         IF j > Len(s) THEN 0
         ELSE IF s[j] = "," THEN ParseElems(s, j + 1, closer)
         ELSE IF s[j] = closer THEN j + 1
         ELSE 0

\* derivable from  e ::= leaf | [e, ...] | (e, ...)  with spaces allowed
\* around commas and brackets
WellFormed(s) ==
    LET e == ParseExpr(s, 1) IN e # 0 /\ SkipSpaces(s, e) = Len(s) + 1

ToSet(l) == {l[i] : i \in 1..Len(l)}

\* the rule has a row in the catalog and the row has a description
HasDescription(rule_id) ==
    rule_id \in DOMAIN Check_Rules /\ Check_Rules[rule_id] # NULL

\* ------------------------------------------------------------------------
\* Python values of the 'value' key: None, a str, a tuple of cells
\* ------------------------------------------------------------------------

PyNone == [type |-> "NoneType", v |-> <<>>]

PyStr(s) == [type |-> "str", v |-> s]

PyTuple(t) == [type |-> "tuple", v |-> t]

\* a cell of the claim store as a Python value
FromCell(c) == IF c = NULL THEN PyNone ELSE PyStr(<<c>>)

\* ------------------------------------------------------------------------
\* SQLite, as far as the field value resolver uses it.  A stored extraction
\* query is [select, where]: the columns it selects from PatientData and
\* what its WHERE clause compares claimid with, "?" for the placeholder.
\* ------------------------------------------------------------------------

\* a row of L1_Rules without query: sql_query is NULL or ''
NoQuery == [select |-> <<>>, where |-> NULL]

\* a stored text that is not a SELECT: DELETE FROM PatientData WHERE
\* claimid = <where>
DeleteQuery(where) == [select |-> <<>>, where |-> where, verb |-> "DELETE"]

IsDelete(q) == "verb" \in DOMAIN q

\* cursor.execute(sql_query, params) and fetchone() on the claim store pd;
\* fetchone() after a DELETE returns None
ExecuteOn(pd, q, params) ==
    IF \E i \in 1..Len(q.select) : q.select[i] \notin ToSet(pd.columns)
    THEN [error |-> <<"no such column">>, found |-> FALSE, val_row |-> <<>>]
    ELSE IF (q.where = "?") # (Len(params) = 1)
    THEN [error |-> <<"Incorrect number of bindings supplied">>,
          found |-> FALSE, val_row |-> <<>>]
    ELSE IF IsDelete(q)
    THEN [error |-> <<>>, found |-> FALSE, val_row |-> <<>>]
    ELSE LET key == IF q.where = "?" THEN params[1] ELSE q.where IN
         IF key \in DOMAIN pd.rows
         THEN [error |-> <<>>, found |-> TRUE,
               val_row |-> [i \in 1..Len(q.select) |-> pd.rows[key][q.select[i]]]]
         ELSE [error |-> <<>>, found |-> FALSE, val_row |-> <<>>]

ExecuteSQL(q, params) == ExecuteOn(PatientData, q, params)

\* the claim store after "with sqlite3.connect(claims_db_path) as conn"
\* has executed the text: the block commits what the text wrote
StoreAfterExecute(pd, q, params) ==
    IF IsDelete(q) /\ ExecuteOn(pd, q, params).error = <<>>
    THEN LET key == IF q.where = "?" THEN params[1] ELSE q.where IN
         [pd EXCEPT !.rows = [c \in DOMAIN pd.rows \ {key} |-> pd.rows[c]]]
    ELSE pd

\* a SELECT on L1_Rules raises sqlite3.Error when it names a column the
\* table does not have
NoSuchColumn(names) == ~(names \subseteq L1_Rules.columns)

\* the rows WHERE check_rule_id = ?, in table order
ChildRows(check) == SelectSeq(L1_Rules.rows, LAMBDA r : r.check_rule_id = check)

\* ------------------------------------------------------------------------
\* fetch_l1_rule_descriptions
\* ------------------------------------------------------------------------

\* SELECT description FROM L1_Rules WHERE check_rule_id = ?; [] when
\* sqlite3.Error is caught
fetch_l1_rule_descriptions(check) ==
    IF NoSuchColumn({"description", "check_rule_id"}) THEN <<>>
    ELSE [i \in 1..Len(ChildRows(check)) |-> ChildRows(check)[i].description]

\* ------------------------------------------------------------------------
\* fetch_l1_rule_descriptions_with_values
\* ------------------------------------------------------------------------

\* SELECT Rule_ID, Rule_Description, sql_query FROM L1_Rules WHERE
\* check_rule_id = ?; the for loop runs over no row when the query raises
FetchRows(check) ==
    IF NoSuchColumn({"rule_id", "rule_description", "sql_query", "check_rule_id"})
    THEN <<>>
    ELSE ChildRows(check)

\* if '?' in sql_query: execute(sql_query, (claim_id,)) else execute(sql_query)
Params(sql_query, claim) == IF sql_query.where = "?" THEN <<claim>> ELSE <<>>

\* val_row[0] whatever the number of columns
RowValueFirst(val_row) == FromCell(val_row[1])

\* val_row[0] if len(val_row) == 1 else val_row
RowValue(val_row) ==
    IF Len(val_row) = 1 THEN FromCell(val_row[1]) ELSE PyTuple(val_row)

\* the loop body without the in-band error string
ChildValueSilent(sql_query, claim) ==
    IF sql_query = NoQuery THEN PyNone
    ELSE LET r == ExecuteSQL(sql_query, Params(sql_query, claim)) IN
         IF r.error # <<>> THEN PyNone
         ELSE IF r.found THEN RowValue(r.val_row)
         ELSE PyStr(<<"N/A">>)

\* the value of one row of the for loop, lines 287-304
ChildValue(sql_query, claim) ==
    IF sql_query = NoQuery THEN PyNone
    ELSE LET r == ExecuteSQL(sql_query, Params(sql_query, claim)) IN
         IF r.error # <<>> THEN PyStr(<<"Error executing SQL: ">> \o r.error)
         ELSE IF r.found THEN RowValue(r.val_row)
         ELSE PyStr(<<"N/A">>)

\* ------------------------------------------------------------------------
\* get_l1_rules_with_values_for_check_id
\* ------------------------------------------------------------------------

\* the entry without the check rule's ID
ConfigurationErrorUnnamed(check) ==
    [description |-> <<"Configuration error">>,
     value |-> PyStr(<<"Cannot verify submission">>)]

\* line 43
ConfigurationError(check) ==
    [description |-> <<"Configuration error for ", check>>,
     value |-> PyStr(<<"Cannot verify submission">>)]

\* line 49
NotSubmitted(desc) == [description |-> desc, value |-> PyStr(<<"Not submitted">>)]

\* lines 34-51, up to the first row of the for loop
L1Call ==
    /\ l1_pc = "call"
    /\ IF check_rule_id = "" \/ l1_claim_id = ""
       THEN /\ results' = <<>>
            /\ l1_pc' = "done"
            /\ UNCHANGED <<rows, l1_resolver_calls>>
       ELSE LET parent_description ==
                    DictGet(fetch_rule_descriptions_for_ids_from_db(<<check_rule_id>>),
                            check_rule_id)
            IN  IF <<>> = parent_description \/ parent_description = NULL
                THEN /\ results' = <<ConfigurationError(check_rule_id)>>
                     /\ l1_pc' = "done"
                     /\ UNCHANGED <<rows, l1_resolver_calls>>
                ELSE /\ l1_resolver_calls' = Append(l1_resolver_calls, parent_description)
                     /\ IF ~check_document_submission_status(l1_claim_id, parent_description)
                        THEN /\ results' =
                                    [i \in 1..Len(fetch_l1_rule_descriptions(check_rule_id)) |->
                                        NotSubmitted(fetch_l1_rule_descriptions(check_rule_id)[i])]
                             /\ l1_pc' = "done"
                             /\ UNCHANGED rows
                        ELSE /\ rows' = FetchRows(check_rule_id)
                             /\ l1_pc' = "rows"
                             /\ UNCHANGED results
    /\ UNCHANGED <<stores, L1_Rules, check_rule_id, l1_claim_id, l1_idx,
                   executed_queries, doc_vars, eval_vars, l2_vars>>
    /\ UNCHANGED aux_vars

\* lines 286-306: one iteration of "for rule_id, desc, sql_query in rows"
L1Row ==
    /\ l1_pc = "rows"
    /\ l1_idx <= Len(rows)
    /\ LET row == rows[l1_idx] IN
       /\ results' = Append(results,
              [rule_id |-> row.rule_id, description |-> row.rule_description,
               value |-> ChildValue(row.sql_query, l1_claim_id)])
       /\ executed_queries' =
              IF row.sql_query = NoQuery THEN executed_queries
              ELSE Append(executed_queries,
                          [sql_query |-> row.sql_query,
                           params |-> Params(row.sql_query, l1_claim_id)])
       /\ PatientData' =
              IF row.sql_query = NoQuery THEN PatientData
              ELSE StoreAfterExecute(PatientData, row.sql_query,
                                     Params(row.sql_query, l1_claim_id))
    /\ l1_idx' = l1_idx + 1
    /\ UNCHANGED <<Check_Rules, L1_Rules, l1_pc, check_rule_id, l1_claim_id, rows,
                   l1_resolver_calls, doc_vars, eval_vars, l2_vars>>
    /\ UNCHANGED aux_vars

\* line 314: return results
L1Return ==
    /\ l1_pc = "rows"
    /\ l1_idx > Len(rows)
    /\ l1_pc' = "done"
    /\ UNCHANGED <<stores, L1_Rules, check_rule_id, l1_claim_id, rows, l1_idx, results,
                   executed_queries, l1_resolver_calls, doc_vars, eval_vars, l2_vars>>
    /\ UNCHANGED aux_vars

\* ------------------------------------------------------------------------
\* The stores and calls of the field value resolver
\* ------------------------------------------------------------------------

MaxChildren == 2

\* a field the claim store has no column for
PolicyNumber == <<"policy", "_", "number">>

\* a row of L1_Rules, child of CH01
FieldRule(id, desc, q) ==
    [rule_id |-> id, rule_description |-> desc, description |-> desc,
     check_rule_id |-> "CH01", sql_query |-> q]

\* one column, two columns, a column that does not exist, a query on a fixed
\* claim without placeholder, a query that finds no row, and no query
FieldRules ==
    {FieldRule("L1_01_01", <<"Patient", "Name">>,
               [select |-> <<Columns[2]>>, where |-> "?"]),
     FieldRule("L1_01_02", <<"Date">>,
               [select |-> <<Columns[3]>>, where |-> "?"]),
     FieldRule("L1_01_03", <<"Name", "and", "date">>,
               [select |-> <<Columns[2], Columns[3]>>, where |-> "?"]),
     FieldRule("L1_01_04", <<"Policy", "Number">>,
               [select |-> <<PolicyNumber>>, where |-> "?"]),
     FieldRule("L1_01_05", <<"Reference", "name">>,
               [select |-> <<Columns[2]>>, where |-> OtherClaim]),
     FieldRule("L1_01_06", <<"Archived", "name">>,
               [select |-> <<Columns[2]>>, where |-> "0000"]),
     FieldRule("L1_01_07", <<"Remarks">>, NoQuery)}

\* the child of CH02
DiagnosisRule ==
    [rule_id |-> "L1_03_01", rule_description |-> <<"Diagnosis">>,
     description |-> <<"Diagnosis">>, check_rule_id |-> "CH02",
     sql_query |-> [select |-> <<Columns[4]>>, where |-> "?"]]

\* lists of up to MaxChildren distinct children of CH01
ChildLists ==
    UNION {{l \in [1..n -> FieldRules] : \A i, j \in 1..n : l[i] = l[j] => i = j} :
              n \in 0..MaxChildren}

\* the table: the child of CH02 stands after the first child of CH01
L1Rows(l) == IF l = <<>> THEN <<DiagnosisRule>> ELSE <<l[1], DiagnosisRule>> \o Tail(l)

\* the columns the queries of lines 187, 283 and 323 name
SiblingColumns == {"rule_id", "rule_description", "check_rule_id", "sql_query"}

\* a table that also has the column line 254 names
WithDescription == SiblingColumns \cup {"description"}

\* a catalog whose row for CH01 has an empty description
EmptyDescription == ("CH01" :> <<>>) @@ Catalog

\* the claim stores: claim form submitted with and without a date, claim
\* form not submitted
L1Stores ==
    {[columns |-> Columns, rows |-> (TestClaim :> r) @@ (OtherClaim :> OtherRow)] :
        r \in {ClaimRow(TestClaim, "x", NULL, " ", NULL),
               ClaimRow(TestClaim, "x", "x", "x", NULL),
               ClaimRow(TestClaim, "", "x", " ", NULL),
               ClaimRow(TestClaim, NULL, " ", "x", NULL)}}

InitL1 ==
    /\ Check_Rules = Catalog \/ Check_Rules = NoCatalog \/ Check_Rules = EmptyDescription
    /\ PatientData \in L1Stores
    /\ \E l \in ChildLists, c \in {SiblingColumns, WithDescription} :
           L1_Rules = [columns |-> c, rows |-> L1Rows(l)]
    /\ l1_pc = "call"
    /\ check_rule_id \in {"CH01", "CH02", "CH04", "CH10", "CH13", ""}
    /\ l1_claim_id \in {TestClaim, "0000", ""}
    /\ rows = <<>>
    /\ l1_idx = 1
    /\ results = <<>>
    /\ executed_queries = <<>>
    /\ l1_resolver_calls = <<>>
    /\ DocIdle /\ EvalIdle /\ L2Idle /\ AuxIdle

NextL1 == L1Call \/ L1Row \/ L1Return

SpecL1 == InitL1 /\ [][NextL1]_vars

\* ------------------------------------------------------------------------
\* evaluate_l2_rule_with_gemini (l2_rule_evaluator.py).  Texts are token
\* sequences: a word, a punctuation mark, a fence, a JSON member or a
\* blank is one token.
\* ------------------------------------------------------------------------

\* ---- the values the function hands back ----

\* nothing returned yet
NoEvaluation ==
    [type |-> "none", keys |-> {}, decision |-> "", reasoning |-> <<>>, text |-> <<>>]

\* {"decision": decision, "reasoning": reasoning}
DecisionDict(decision, reasoning) ==
    [type |-> "dict", keys |-> {"decision", "reasoning"}, decision |-> decision,
     reasoning |-> reasoning, text |-> <<>>]

\* return result_json: the parsed object, with the keys the judge wrote
ResultJSON(keys) ==
    [type |-> "dict", keys |-> keys, decision |-> "", reasoning |-> <<>>, text |-> <<>>]

\* return "Error: ..." : a str
ErrorString(text) ==
    [type |-> "str", keys |-> {}, decision |-> "", reasoning |-> <<>>, text |-> text]

\* an exception that leaves the function
Raised(exception) ==
    [type |-> "raise", keys |-> {}, decision |-> "", reasoning |-> <<>>,
     text |-> <<exception>>]

\* str(v) of an f-string field
Str(v) == IF v = PyNone THEN <<"None">> ELSE v.v

\* ---- str methods ----

\* what strip() removes
Blank == {" ", "\n"}

RECURSIVE LStrip(_)
LStrip(s) == IF s # <<>> /\ Head(s) \in Blank THEN LStrip(Tail(s)) ELSE s

RECURSIVE RStrip(_)
RStrip(s) ==
    IF s # <<>> /\ s[Len(s)] \in Blank THEN RStrip(SubSeq(s, 1, Len(s) - 1)) ELSE s

\* s.strip()
Strip(s) == RStrip(LStrip(s))

\* s.replace('.', '')
RemoveDots(s) == SelectSeq(s, LAMBDA t : t # ".")

\* s.split(sep): the pieces between the separators, [''] for ''
RECURSIVE Split(_, _, _)
Split(s, sep, piece) ==
    IF s = <<>> THEN <<piece>>
    ELSE IF Head(s) = sep THEN <<piece>> \o Split(Tail(s), sep, <<>>)
    ELSE Split(Tail(s), sep, Append(piece, Head(s)))

\* s.split(':', 1): at most two pieces
SplitOnce(s, sep) ==
    IF \E i \in 1..Len(s) : s[i] = sep
    THEN LET i == CHOOSE k \in 1..Len(s) : s[k] = sep /\ \A j \in 1..(k - 1) : s[j] # sep
         IN  <<SubSeq(s, 1, i - 1), SubSeq(s, i + 1, Len(s))>>
    ELSE <<s>>

\* "\n".join(lines)
RECURSIVE JoinLines(_)
JoinLines(lines) ==
    IF lines = <<>> THEN <<>>
    ELSE IF Len(lines) = 1 THEN lines[1]
    ELSE lines[1] \o <<"\n">> \o JoinLines(Tail(lines))

\* ---- the rule kinds ----

complex_keywords == {<<"same">>, <<"match">>, <<"compare">>, <<"verify">>, <<"check", "if">>}

\* keyword in text
InText(keyword, text) ==
    \E i \in 0..(Len(text) - Len(keyword)) :
        \A j \in 1..Len(keyword) : text[i + j] = keyword[j]

\* any(keyword in l2_description.lower() for keyword in complex_keywords)
IsComplex(description) ==
    \E keyword \in complex_keywords : InText(keyword, LowerSeq(description))

\* ---- _fetch_data_for_l1_rule ----

\* the rows SELECT sql_query FROM L1_Rules WHERE Rule_ID = ? finds; the
\* text after the colon names one rule id when it is one token
RuleRows(rule_id) == SelectSeq(L1_Rules.rows, LAMBDA r : <<r.rule_id>> = rule_id)

\* the value the call returns on the claim store pd
fetch_data_on(pd, rule_id, claim) ==
    IF NoSuchColumn({"sql_query", "rule_id"})
    THEN <<"Error fetching data: ", "no such column">>
    ELSE LET found == RuleRows(rule_id) IN
         IF found = <<>>
         THEN <<"Error: L1_Rule '">> \o rule_id \o <<"' not found.">>
         ELSE LET sql_query == found[1].sql_query
                  value_result == ExecuteOn(pd, sql_query, Params(sql_query, claim))
              IN  IF value_result.error # <<>>
                  THEN <<"Error fetching data: ">> \o value_result.error
                  ELSE IF value_result.found
                  THEN Str(FromCell(value_result.val_row[1]))
                  ELSE <<"N/A">>

\* the claim store pd after the call
store_after_fetch(pd, rule_id, claim) ==
    IF NoSuchColumn({"sql_query", "rule_id"}) \/ RuleRows(rule_id) = <<>>
    THEN pd
    ELSE StoreAfterExecute(pd, RuleRows(rule_id)[1].sql_query,
                           Params(RuleRows(rule_id)[1].sql_query, claim))

fetch_data_for_l1_rule(rule_id, claim) == fetch_data_on(PatientData, rule_id, claim)

\* ---- the prompt ----

\* the placeholders format() is given values for
Fields == {"{l2_description}", "{primary_source_id}", "{primary_data}",
           "{secondary_data_formatted}"}

\* a placeholder format() has no value for: KeyError
UnknownFields == {"{x}"}

\* contents of prompts/gemini_2-5f_l2_evaluation_prompt.txt: a template
\* that asks for a "JSON Response", one that does not, one with a stray
\* placeholder; "missing" when the file is not there
Templates ==
    [json   |-> <<"JSON Response", "{l2_description}", "{primary_source_id}",
                  "{primary_data}", "{secondary_data_formatted}">>,
     plain  |-> <<"Answer", "{l2_description}", "{primary_source_id}",
                  "{primary_data}", "{secondary_data_formatted}">>,
     braces |-> <<"JSON Response", "{l2_description}", "{x}">>]

PromptFiles == {"missing", "json", "plain", "braces"}

\* prompt_template.format(**values)
RECURSIVE Format(_, _)
Format(template, values) ==
    IF template = <<>> THEN <<>>
    ELSE (IF Head(template) \in Fields THEN values[Head(template)] ELSE <<Head(template)>>)
         \o Format(Tail(template), values)

\* "- {document}: {value}"
DataLine(source) == <<"-">> \o source.document \o <<":">> \o source.value

RECURSIVE FetchInOrder(_, _, _)
\* line 45 on the claim store pd: one source for each pair, fetched in the
\* order of the pairs, and the claim store after the fetches
FetchInOrder(pd, rule_pairs, claim) ==
    IF rule_pairs = <<>> THEN [data |-> <<>>, store |-> pd]
    ELSE LET rule_id == Strip(rule_pairs[1][2])
             rest == FetchInOrder(store_after_fetch(pd, rule_id, claim),
                                  Tail(rule_pairs), claim)
         IN  [data |-> <<[document |-> Strip(rule_pairs[1][1]),
                          value |-> fetch_data_on(pd, rule_id, claim)]>> \o rest.data,
              store |-> rest.store]

\* the sources in the opposite order
reversed_fetched_data(rule_pairs, claim) ==
    [i \in 1..Len(rule_pairs) |->
        [document |-> Strip(rule_pairs[Len(rule_pairs) + 1 - i][1]),
         value |-> fetch_data_for_l1_rule(Strip(rule_pairs[Len(rule_pairs) + 1 - i][2]),
                                          claim)]]

\* line 45: one source for each pair, in the order of the pairs
ordered_fetched_data(rule_pairs, claim) ==
    FetchInOrder(PatientData, rule_pairs, claim).data

\* lines 39-72: the outcome of the try block for a complex rule, either a
\* returned value or the prompt; fetched is the sources resolved, those
\* before the pair that raises when a pair has no colon
ComplexPrompt(description, value, claim, file) ==
    IF value = PyNone
    THEN [returns |-> TRUE, prompt |-> <<>>, fetched |-> <<>>, store |-> PatientData,
          evaluation |-> ErrorString(<<"Error: ",
                             "'NoneType' object has no attribute 'split'">>)]
    ELSE LET pieces == Split(value.v, ",", <<>>)
             rule_pairs == [i \in 1..Len(pieces) |-> SplitOnce(Strip(pieces[i]), ":")]
         IN
         IF Len(rule_pairs[1]) < 2
         THEN [returns |-> TRUE, prompt |-> <<>>, fetched |-> <<>>,
               store |-> PatientData,
               evaluation |-> DecisionDict("Cannot Determine",
                                  <<"Invalid L1 data format: ">> \o value.v)]
         ELSE IF \E i \in 1..Len(rule_pairs) : Len(rule_pairs[i]) < 2
         THEN LET before == SubSeq(rule_pairs, 1,
                                   Min({i \in 1..Len(rule_pairs) :
                                           Len(rule_pairs[i]) < 2}) - 1)
              IN
              [returns |-> TRUE, prompt |-> <<>>,
               fetched |-> ordered_fetched_data(before, claim),
               store |-> FetchInOrder(PatientData, before, claim).store,
               evaluation |-> ErrorString(<<"Error: ", "list index out of range">>)]
         ELSE LET fetched_data == ordered_fetched_data(rule_pairs, claim)
                  store == FetchInOrder(PatientData, rule_pairs, claim).store
                  primary_source == fetched_data[1]
                  secondary_sources == Tail(fetched_data)
                  values ==
                      [f \in Fields |->
                          CASE f = "{l2_description}" -> description
                            [] f = "{primary_source_id}" -> primary_source.document
                            [] f = "{primary_data}" -> primary_source.value
                            [] OTHER ->
                                 JoinLines([i \in 1..Len(secondary_sources) |->
                                          DataLine(secondary_sources[i])])]
              IN
              IF file = "missing"
              THEN [returns |-> TRUE, prompt |-> <<>>, fetched |-> fetched_data, store |-> store,
                    evaluation |-> ErrorString(<<"Error: Prompt template file not found.">>)]
              ELSE IF \E i \in 1..Len(Templates[file]) : Templates[file][i] \in UnknownFields
              THEN [returns |-> TRUE, prompt |-> <<>>, fetched |-> fetched_data, store |-> store,
                    evaluation |-> ErrorString(<<"Error: ", "'x'">>)]
              ELSE [returns |-> FALSE, prompt |-> Format(Templates[file], values),
                    fetched |-> fetched_data, store |-> store, evaluation |-> NoEvaluation]

\* lines 75-80
SimplePrompt(description, value) ==
    <<"Rule: ">> \o description \o <<"Data: ">> \o Str(value) \o
    <<"Based on the provided data, does it satisfy the rule? ",
      "Please answer with only Pass, Fail, or Cannot Determine.">>

\* ---- the judge's answers ----

\* a member "overall_decision": "<word>" of a JSON object, by its word
ODPass == "\"overall_decision\": \"Pass\""
ODFail == "\"overall_decision\": \"Fail\""
ODPASS == "\"overall_decision\": \"PASS\""

\* the members of a JSON object, each with its value
Members == {"\"primary_source\": ..", "\"comparisons\": ..", "\"overall_reasoning\": ..",
            ODPass, ODFail, ODPASS}

\* the key of a member
Key(member) ==
    CASE member = "\"primary_source\": .." -> "primary_source"
      [] member = "\"comparisons\": .." -> "comparisons"
      [] member = "\"overall_reasoning\": .." -> "overall_reasoning"
      [] OTHER -> "overall_decision"

\* json.loads(text): an object is "{" members "}", blanks allowed between
\* them; anything else raises JSONDecodeError
json_loads(text) ==
    IF /\ Len(text) >= 2
       /\ text[1] = "{"
       /\ text[Len(text)] = "}"
       /\ \A i \in 2..(Len(text) - 1) : text[i] \in Members \cup Blank
    THEN [ok |-> TRUE,
          keys |-> {Key(text[i]) : i \in {j \in 2..(Len(text) - 1) : text[j] \in Members}}]
    ELSE [ok |-> FALSE, keys |-> {}]

\* lines 104-108; the fence of three backquotes is written '''
StripFences(text) ==
    LET stripped == Strip(text)
        opened == IF stripped # <<>> /\ stripped[1] = "'''json"
                  THEN Strip(Tail(stripped)) ELSE stripped
    IN  IF opened # <<>> /\ opened[Len(opened)] = "'''"
        THEN Strip(SubSeq(opened, 1, Len(opened) - 1)) ELSE opened

\* re.search for the overall_decision member with the word Pass or Fail,
\* re.IGNORECASE: group(1) of the first match, written as the text has it;
\* the empty string without match
re_search(raw) ==
    LET hits == {i \in 1..Len(raw) : raw[i] \in {ODPass, ODFail, ODPASS}} IN
    IF hits = {} THEN ""
    ELSE LET first == raw[CHOOSE i \in hits : \A j \in hits : i <= j] IN
         CASE first = ODPass -> "Pass"
           [] first = ODFail -> "Fail"
           [] OTHER -> "PASS"

\* lines 128-135 and 140-147
Recover(raw_response) ==
    IF re_search(raw_response) # ""
    THEN DecisionDict(re_search(raw_response),
                      <<"Recovered from malformed JSON: ">> \o raw_response)
    ELSE DecisionDict("Cannot Determine",
                      <<"Unexpected response from model: ">> \o raw_response)

\* lines 137-139: except Exception as e
ExceptionHandler(e) == Recover(e)

\* lines 103-119: the structured path
ParseJSON(text) ==
    LET result_json == json_loads(StripFences(text)) IN
    IF ~result_json.ok
    THEN DecisionDict("Cannot Determine",
                      <<"Model returned non-JSON response: ">> \o text)
    ELSE IF {"primary_source", "comparisons", "overall_decision", "overall_reasoning"}
                \subseteq result_json.keys
    THEN ResultJSON(result_json.keys)
    ELSE DecisionDict("Cannot Determine", <<"Incomplete JSON response from model: ">>
                          \o StripFences(text))

\* lines 122-135: the plain path
ParsePlain(text) ==
    LET cleaned_response == RemoveDots(Strip(text)) IN
    IF cleaned_response \in {<<"Pass">>, <<"Fail">>, <<"Cannot Determine">>}
    THEN DecisionDict(cleaned_response[1], <<"Simple evaluation.">>)
    ELSE Recover(text)

\* "JSON Response" in prompt
ExpectsJSON(p) == InText(<<"JSON Response">>, p)

\* lines 101-147 for what generate_content did: [kind, text] with kind
\* "text" (response.text is a str), "none" (response.text is None) or
\* "raise" (the call raised, text is str(e))
Parse(p, r) ==
    CASE r.kind = "raise" -> ExceptionHandler(r.text)
      [] r.kind = "none" ->
             ExceptionHandler(<<"'NoneType' object has no attribute 'strip'">>)
      [] OTHER -> IF ExpectsJSON(p) THEN ParseJSON(r.text) ELSE ParsePlain(r.text)

\* lines 148-151 of ui_check_rules.py: the decision the page shows
DisplayedDecision(e) ==
    IF e.type = "dict" /\ "decision" \in e.keys THEN e.decision ELSE "Error"

\* ---- inputs ----

\* rows of L2_Rules: rule_description, NULL included
L2Descriptions ==
    {PyNone,
     PyStr(<<"Check", "if", "the", "names", "are", "the", "same">>),
     PyStr(<<"Verify", "the", "date">>),
     PyStr(<<"Patient", "is", "an", "adult">>)}

\* rows of L2_Rules: L1_rule_id, the references "document: rule id, ..."
L1References ==
    {PyNone,
     PyStr(<<>>),
     PyStr(<<"L1_01_01">>),
     PyStr(<<"Claim form", ":", "L1_01_01">>),
     PyStr(<<"Claim form", ":", "L1_01_01", ",", " ", "Aadhar card", ":", " ", "L1_01_04">>),
     PyStr(<<"Claim form", ":", "L1_01_02", ",", "L1_01_01">>),
     PyStr(<<"Claim form", ":", "L1_99_99">>),
     PyStr(<<"Claim form", ":", "L1_01_01", ",", " ", "Discharge summary", " ", ":",
             "L1_03_01", ",", "Claim form", ":", "L1_01_02", " ">>)}

RuleById(id) == CHOOSE r \in FieldRules : r.rule_id = id

\* the field rules the references name; the query of L1_01_04 selects a
\* column the claim store does not have
L2RuleTable ==
    [columns |-> SiblingColumns,
     rows |-> <<RuleById("L1_01_01"), DiagnosisRule, RuleById("L1_01_02"),
                RuleById("L1_01_04")>>]

\* what the judge writes in response.text
AnswerTexts ==
    {<<"{", "\"primary_source\": ..", "\"comparisons\": ..", ODPass,
       "\"overall_reasoning\": ..", "}">>,
     <<"'''json", "\n", "{", "\"primary_source\": ..", "\"comparisons\": ..", ODFail,
       "\"overall_reasoning\": ..", "}", "\n", "'''">>,
     <<"{", ODFail, "}">>,
     <<"{", "\"primary_source\": ..", ODPass>>,
     <<"The answer is", " ", ODFail>>,
     <<"I am not sure">>,
     <<"Pass">>,
     <<"Fail", ".">>,
     <<" ", "Cannot Determine", "\n">>,
     <<"pass">>,
     <<"{", ODPASS>>}

\* what a failed call says: a service error, and one that quotes the
\* judge's broken output
ServiceErrors ==
    {<<"503 Service Unavailable">>,
     <<"Invalid response: ", "{", ODPass>>}

Responses ==
    {[kind |-> "text", text |-> t] : t \in AnswerTexts}
    \cup {[kind |-> "none", text |-> <<>>]}
    \cup {[kind |-> "raise", text |-> e] : e \in ServiceErrors}

\* no call of generate_content yet
NoResponse == [kind |-> "unasked", text |-> <<>>]

\* ---- the call, in three steps ----

\* lines 34-80: choose the rule kind and build the prompt
L2Prompt ==
    /\ l2_pc = "prompt"
    /\ IF l2_description = PyNone
       THEN /\ evaluation' = Raised("AttributeError")
            /\ l2_pc' = "done"
            /\ UNCHANGED <<prompt, l2_fetched, PatientData>>
       ELSE IF IsComplex(l2_description.v)
       THEN LET built == ComplexPrompt(l2_description.v, l1_value, l2_claim_id,
                                       prompt_file) IN
            /\ evaluation' = built.evaluation
            /\ prompt' = built.prompt
            /\ l2_fetched' = built.fetched
            /\ PatientData' = built.store
            /\ l2_pc' = IF built.returns THEN "done" ELSE "generate"
       ELSE /\ prompt' = SimplePrompt(l2_description.v, l1_value)
            /\ l2_pc' = "generate"
            /\ UNCHANGED <<evaluation, l2_fetched, PatientData>>
    /\ UNCHANGED <<l2_description, l1_value, l2_claim_id, prompt_file, model, response,
                   Check_Rules, doc_vars, eval_vars, l1_vars>>
    /\ UNCHANGED aux_vars

\* lines 82-99: get the model and ask it
L2Generate ==
    /\ l2_pc = "generate"
    /\ IF model = "none"
       THEN /\ evaluation' = ErrorString(<<"Error: Gemini model could not be initialized. ",
                                           "Check API_KEY.">>)
            /\ l2_pc' = "done"
            /\ UNCHANGED response
       ELSE /\ response' \in Responses
            /\ l2_pc' = "parse"
            /\ UNCHANGED evaluation
    /\ UNCHANGED <<l2_description, l1_value, l2_claim_id, prompt_file, model, prompt,
                   l2_fetched, stores, doc_vars, eval_vars, l1_vars>>
    /\ UNCHANGED aux_vars

\* lines 101-147: read the answer
L2Parse ==
    /\ l2_pc = "parse"
    /\ evaluation' = Parse(prompt, response)
    /\ l2_pc' = "done"
    /\ UNCHANGED <<l2_description, l1_value, l2_claim_id, prompt_file, model, prompt,
                   response, l2_fetched, stores, doc_vars, eval_vars, l1_vars>>
    /\ UNCHANGED aux_vars

InitL2 ==
    /\ Check_Rules = Catalog
    /\ PatientData \in L1Stores
    /\ L1_Rules = L2RuleTable
    /\ l1_pc = "idle"
    /\ check_rule_id = ""
    /\ l1_claim_id = ""
    /\ rows = <<>>
    /\ l1_idx = 1
    /\ results = <<>>
    /\ executed_queries = <<>>
    /\ l1_resolver_calls = <<>>
    /\ l2_pc = "prompt"
    /\ l2_description \in L2Descriptions
    /\ l1_value \in L1References
    /\ l2_claim_id \in {TestClaim, "0000"}
    /\ prompt_file \in PromptFiles
    /\ model \in {"none", "ok"}
    /\ prompt = <<>>
    /\ response = NoResponse
    /\ evaluation = NoEvaluation
    /\ l2_fetched = <<>>
    /\ DocIdle /\ EvalIdle /\ AuxIdle

NextL2 == L2Prompt \/ L2Generate \/ L2Parse

SpecL2 == InitL2 /\ [][NextL2]_vars

\* ------------------------------------------------------------------------
\* The reads of the rule catalog: sqlite3 errors and their handlers
\* ------------------------------------------------------------------------

PyList(l) == [type |-> "list", v |-> l]

PyDict(d) == [type |-> "dict", v |-> d]

\* the classes an exception is an instance of
Bases(exception) ==
    CASE exception = "sqlite3.OperationalError" ->
             {"sqlite3.OperationalError", "sqlite3.DatabaseError", "sqlite3.Error",
              "Exception"}
      [] exception = "sqlite3.DatabaseError" ->
             {"sqlite3.DatabaseError", "sqlite3.Error", "Exception"}
      [] OTHER -> {exception, "Exception"}

\* what a function hands to its caller
Returns(value) == [raised |-> "none", value |-> value]

Raises(exception) == [raised |-> exception, value |-> PyNone]

\* a try block whose handlers let the exception pass
TryUncaught(error, handlers, on_error, result) ==
    IF error = "none" THEN Returns(result) ELSE Raises(error)

\* try: ... return result / except <handlers>: return on_error
Try(error, handlers, on_error, result) ==
    IF error = "none" THEN Returns(result)
    ELSE IF Bases(error) \cap handlers # {} THEN Returns(on_error)
    ELSE Raises(error)

\* os.path.exists(RULES_DB_PATH)
RulesDbExists == rules_db # "missing"

\* what sqlite3.connect and a SELECT of the columns names from a table of
\* rules.db raise, "none" when the rows are read.  connect() on a missing
\* file creates an empty database, the SELECT then finds no such table; a
\* table of no columns stands for a table that does not exist.
SelectError(table, names) ==
    CASE rules_db = "unreadable" -> "sqlite3.OperationalError"
      [] rules_db = "corrupt" -> "sqlite3.DatabaseError"
      [] rules_db = "missing" -> "sqlite3.OperationalError"
      [] ~(names \subseteq table.columns) -> "sqlite3.OperationalError"
      [] OTHER -> "none"

\* the handlers of the fetch functions
BothHandlers == {"sqlite3.Error", "Exception"}

SqliteHandler == {"sqlite3.Error"}

\* ---- Procedure_rules ----

\* ORDER BY Proc_Name
ProcOrder == <<"Day Care", "Surgery">>

\* the rows WHERE Proc_Name = ?
ProcRows(procedure_name) ==
    SelectSeq(Procedure_rules.rows, LAMBDA r : r.Proc_Name = procedure_name)

\* fetch_all_procedure_names_from_db
fetch_all_procedure_names_from_db ==
    Try(SelectError(Procedure_rules, {"Proc_Name"}), BothHandlers, PyList(<<>>),
        PyList(SelectSeq(ProcOrder,
                   LAMBDA n : \E i \in 1..Len(Procedure_rules.rows) :
                                  Procedure_rules.rows[i].Proc_Name = n)))

\* get_procedure_names
get_procedure_names ==
    IF ~RulesDbExists THEN Returns(PyList(<<>>)) ELSE fetch_all_procedure_names_from_db

\* fetch_rules_for_procedure_from_db: row[0] of fetchone(), None without row
fetch_rules_for_procedure_from_db(procedure_name) ==
    Try(SelectError(Procedure_rules, {"Check_Rules", "Proc_Name"}), BothHandlers, PyNone,
        IF ProcRows(procedure_name) = <<>> THEN PyNone
        ELSE ProcRows(procedure_name)[1].Check_Rules)

\* fetch_procedure_rules_expression_from_db
fetch_procedure_rules_expression_from_db(procedure_name) ==
    Try(SelectError(Procedure_rules, {"procedure_rules", "Proc_Name"}), BothHandlers,
        PyNone,
        IF ProcRows(procedure_name) = <<>> THEN PyNone
        ELSE ProcRows(procedure_name)[1].procedure_rules)

\* get_procedure_rules_expression
get_procedure_rules_expression(procedure_name) ==
    IF ~RulesDbExists THEN Returns(PyNone)
    ELSE IF procedure_name = "" THEN Returns(PyNone)
    ELSE fetch_procedure_rules_expression_from_db(procedure_name)

RECURSIVE FindAllTwoDigitIDs(_, _)
\* the pattern of the evaluator, CH and exactly two digits
FindAllTwoDigitIDs(s, i) ==
    IF i > Len(s) THEN <<>>
    ELSE IF /\ s[i] \in TwoDigitIDs
            /\ (i = 1 \/ ~IsWord(s[i - 1]))
            /\ (i = Len(s) \/ ~IsWord(s[i + 1]))
    THEN <<<<s[i]>>>> \o FindAllTwoDigitIDs(s, i + 1)
    ELSE FindAllTwoDigitIDs(s, i + 1)

RECURSIVE FindAllRuleIDs(_, _)
\* re.findall(r'\b(CH\d{2,})\b', s) from index i: the words CH and all the
\* digits that follow, a non-word character or an end of the text on each
\* side, in the order of the text
FindAllRuleIDs(s, i) ==
    IF i > Len(s) THEN <<>>
    ELSE IF s[i] \in TwoDigitIDs /\ (i = 1 \/ ~IsWord(s[i - 1]))
    THEN LET e == DigitsEnd(s, i + 1) IN
         IF e > Len(s) \/ ~IsWord(s[e])
         THEN <<SubSeq(s, i, e - 1)>> \o FindAllRuleIDs(s, e)
         ELSE FindAllRuleIDs(s, i + 1)
    ELSE FindAllRuleIDs(s, i + 1)

\* not x, for None and str
Falsy(x) == x = PyNone \/ x = PyStr(<<>>)

\* get_parsed_rules_for_procedure
get_parsed_rules_for_procedure(procedure_name) ==
    IF ~RulesDbExists THEN Returns(PyList(<<>>))
    ELSE LET raw_rules_string == fetch_rules_for_procedure_from_db(procedure_name) IN
         IF raw_rules_string.raised # "none" THEN raw_rules_string
         ELSE IF Falsy(raw_rules_string.value) THEN Returns(PyList(<<>>))
         ELSE Returns(PyList(FindAllRuleIDs(raw_rules_string.value.v, 1)))

\* ---- Check_Rules, L1_Rules, L2_Rules ----

\* fetch_rule_descriptions_for_ids_from_db with the errors of the store:
\* the dict of the rows found
DescriptionsRead(ids) ==
    IF ids = <<>> THEN Returns(PyDict(<<>>))
    ELSE Try(SelectError(Procedure_rules, {}), BothHandlers, PyDict(<<>>),
             PyDict(fetch_rule_descriptions_for_ids_from_db(ids)))

\* fetch_l1_rule_descriptions with the errors of the store
FieldRulesRead(check) ==
    Try(SelectError(Procedure_rules, {}), SqliteHandler, PyList(<<>>),
        PyList(fetch_l1_rule_descriptions(check)))

\* fetch_all_l2_rules_from_db
fetch_all_l2_rules_from_db ==
    Try(SelectError(L2_Rules, {"rule_id", "rule_description", "L1_rule_id"}),
        SqliteHandler, PyList(<<>>),
        PyList([i \in 1..Len(L2_Rules.rows) |->
                   [rule_id |-> L2_Rules.rows[i].rule_id,
                    description |-> L2_Rules.rows[i].rule_description,
                    l1_data_references |-> L2_Rules.rows[i].L1_rule_id]]))

\* ---- one action per read ----

\* the read has not returned yet
Pending == [raised |-> "pending", value |-> PyNone]

\* the variables a read leaves alone
CatFrame ==
    UNCHANGED <<stores, rules_db, Procedure_rules, L2_Rules, cat_call,
                doc_vars, eval_vars, l1_vars, l2_vars, ing_vars, req_vars>>

GetProcedureNames ==
    /\ cat_call.f = "get_procedure_names"
    /\ cat_result = Pending
    /\ cat_result' = get_procedure_names
    /\ CatFrame

GetParsedRules ==
    /\ cat_call.f = "get_parsed_rules_for_procedure"
    /\ cat_result = Pending
    /\ cat_result' = get_parsed_rules_for_procedure(cat_call.arg[1])
    /\ CatFrame

GetExpression ==
    /\ cat_call.f = "get_procedure_rules_expression"
    /\ cat_result = Pending
    /\ cat_result' = get_procedure_rules_expression(cat_call.arg[1])
    /\ CatFrame

FetchDescriptions ==
    /\ cat_call.f = "fetch_rule_descriptions_for_ids_from_db"
    /\ cat_result = Pending
    /\ cat_result' = DescriptionsRead(cat_call.arg)
    /\ CatFrame

FetchFieldRules ==
    /\ cat_call.f = "fetch_l1_rule_descriptions"
    /\ cat_result = Pending
    /\ cat_result' = FieldRulesRead(cat_call.arg[1])
    /\ CatFrame

FetchSemanticRules ==
    /\ cat_call.f = "fetch_all_l2_rules_from_db"
    /\ cat_result = Pending
    /\ cat_result' = fetch_all_l2_rules_from_db
    /\ CatFrame

\* ---- inputs ----

\* the columns populate_procedure_rules.py creates, and those with the
\* expression column the expression read names
ProcColumns == {"Proc_ID", "Proc_Name", "Poc_Type", "Check_Rules"}

ProcColumnsWithExpression == ProcColumns \cup {"procedure_rules"}

\* a row of Procedure_rules
ProcRow(name, check_rules, expr) ==
    [Proc_Name |-> name, Check_Rules |-> check_rules, procedure_rules |-> expr]

\* a table with the procedure Day Care, after a row of Surgery
ProcTable(columns, check_rules, expr) ==
    [columns |-> columns,
     rows |-> <<ProcRow("Surgery", PyStr(<<"[", "CH02", "]">>), PyNone),
                ProcRow("Day Care", check_rules, expr)>>]

NoProcTable == [columns |-> {}, rows |-> <<>>]

\* the check-rule fields of the rows of the store
CheckRuleFields ==
    {PyNone, PyStr(<<>>),
     PyStr(<<"[", "CH01", ",", " ", "(", "CH02", ",", " ", "CH13", ")", "]">>),
     PyStr(<<"CH01", ",", "CH10", "0", ",", " ", "CH01">>)}

ProcTables ==
    {ProcTable(c, f, f) : c \in {ProcColumns, ProcColumnsWithExpression},
                          f \in CheckRuleFields}
    \cup {NoProcTable}

\* the columns create_rules_db.py creates, and those with the references
L2Columns == {"rule_id", "rule_description"}

L2ColumnsWithReferences == L2Columns \cup {"L1_rule_id"}

L2Tables ==
    {[columns |-> c,
      rows |-> <<[rule_id |-> "L2_01", rule_description |-> d, L1_rule_id |-> r]>>] :
        c \in {L2Columns, L2ColumnsWithReferences},
        d \in {PyNone, PyStr(<<"Verify", "the", "date">>)},
        r \in {PyNone, PyStr(<<"Claim form", ":", "L1_01_01">>)}}

ProcedureNames == {"Day Care", "Surgery", "Dialysis", ""}

Reads ==
    {[f |-> "get_procedure_names", arg |-> <<>>],
     [f |-> "fetch_all_l2_rules_from_db", arg |-> <<>>]}
    \cup {[f |-> g, arg |-> <<n>>] :
             g \in {"get_parsed_rules_for_procedure", "get_procedure_rules_expression"},
             n \in ProcedureNames}
    \cup {[f |-> "fetch_rule_descriptions_for_ids_from_db", arg |-> ids] :
             ids \in {<<>>, <<"CH02">>, <<"CH01", "CH04", "CH10">>}}
    \cup {[f |-> "fetch_l1_rule_descriptions", arg |-> <<c>>] : c \in {"CH01", "CH04"}}

\* a read of the check-rule field of Day Care for every short text, and
\* every read on every condition of the store
InitCat ==
    /\ PatientData = Table(Row("x", " "))
    /\ \/ /\ rules_db = "ok"
          /\ Check_Rules = Catalog
          /\ L1_Rules = L2RuleTable
          /\ L2_Rules = [columns |-> L2Columns, rows |-> <<>>]
          /\ \E s \in Strings \cup test_expressions :
                 Procedure_rules = ProcTable(ProcColumns, PyStr(s), PyNone)
          /\ cat_call = [f |-> "get_parsed_rules_for_procedure", arg |-> <<"Day Care">>]
       \/ /\ rules_db \in {"ok", "missing", "unreadable", "corrupt"}
          /\ Check_Rules \in {Catalog, NoCatalog}
          /\ \E c \in {SiblingColumns, WithDescription} :
                 L1_Rules = [columns |-> c, rows |-> L2RuleTable.rows]
          /\ L2_Rules \in L2Tables
          /\ Procedure_rules \in ProcTables
          /\ cat_call \in Reads
    /\ cat_result = Pending
    /\ DocIdle /\ EvalIdle /\ L2Idle /\ IngIdle /\ ReqIdle
    /\ l1_pc = "idle"
    /\ check_rule_id = ""
    /\ l1_claim_id = ""
    /\ rows = <<>>
    /\ l1_idx = 1
    /\ results = <<>>
    /\ executed_queries = <<>>
    /\ l1_resolver_calls = <<>>

NextCat ==
    \/ GetProcedureNames
    \/ GetParsedRules
    \/ GetExpression
    \/ FetchDescriptions
    \/ FetchFieldRules
    \/ FetchSemanticRules

SpecCat == InitCat /\ [][NextCat]_vars

\* ------------------------------------------------------------------------
\* claims_db_creator: process_txt_file and _write_df_to_table
\* A table of the claims database is [exists, columns, rows]: rows is the
\* sequence of the rows in the order of their insertion, a row maps the
\* columns it was inserted with to their values.
\* ------------------------------------------------------------------------

\* s.replace(a, b) for strings of one character
ReplaceToken(s, a, b) == [i \in 1..Len(s) |-> IF s[i] = a THEN b ELSE s[i]]

\* col.strip().replace(" ", "_").replace("?", "").lower()
normalize_col(col) ==
    LowerSeq(SelectSeq(ReplaceToken(Strip(col), " ", "_"), LAMBDA t : t # "?"))

\* the values of a cell: a text, NULL, and the JSON text of a list
Text(s) == [kind |-> "text", v |-> s]

Null == [kind |-> "null", v |-> <<>>]

json_dumps(values) == [kind |-> "json", v |-> values]

\* normalize_col("ClaimID")
ClaimIDColumn == normalize_col(<<"ClaimID">>)

\* the rows DELETE FROM table WHERE claimid = ? leaves; every row stays
\* when the statement raises sqlite3.OperationalError for want of the column
DeleteClaim(table, claim) ==
    IF ClaimIDColumn \in table.columns
    THEN SelectSeq(table.rows,
                   LAMBDA r : ~(ClaimIDColumn \in DOMAIN r /\ r[ClaimIDColumn] = Text(claim)))
    ELSE table.rows

\* an ingest that appends without deleting
append_df_to_table(db, df, table_name, claim) ==
    IF db[table_name].exists
    THEN [db EXCEPT ![table_name] =
             [exists |-> TRUE,
              columns |-> db[table_name].columns \cup DOMAIN df,
              rows |-> Append(db[table_name].rows, df)]]
    ELSE [db EXCEPT ![table_name] =
             [exists |-> TRUE, columns |-> DOMAIN df, rows |-> <<df>>]]

\* _write_df_to_table(conn, df, table_name, claim_id) for a frame of one
\* row: the database after the call.  to_sql creates a table that does not
\* exist with the columns of the frame.
write_df_to_table(db, df, table_name, claim) ==
    IF db[table_name].exists
    THEN [db EXCEPT ![table_name] =
             [exists |-> TRUE,
              columns |-> db[table_name].columns \cup DOMAIN df,
              rows |-> Append(DeleteClaim(db[table_name], claim), df)]]
    ELSE [db EXCEPT ![table_name] =
             [exists |-> TRUE, columns |-> DOMAIN df, rows |-> <<df>>]]

\* the lines of a file: a section header, a data line that matches
\* data_line_pattern with its three groups, or any other line
PatientHeader == [kind |-> "--Patient Data--", field |-> <<>>, value |-> <<>>, page |-> <<>>]

NotPatientHeader ==
    [kind |-> "--Not Patient Data--", field |-> <<>>, value |-> <<>>, page |-> <<>>]

OtherLine == [kind |-> "other", field |-> <<>>, value |-> <<>>, page |-> <<>>]

DataLine3(field, value, page) ==
    [kind |-> "data", field |-> field, value |-> value, page |-> page]

\* lines 101-109: the column of a data line
col_name(line) ==
    normalize_col(ReplaceToken(Strip(line.page), " ", "_") \o <<".">>
                  \o SelectSeq(ReplaceToken(Strip(line.field), " ", "_"),
                               LAMBDA t : t # "?"))

\* line 112: None if value.lower() == "not in scope" else value
line_value(line) ==
    IF LowerSeq(Strip(line.value)) = <<"not", " ", "in", " ", "scope">>
    THEN Null ELSE Text(Strip(line.value))

RECURSIVE Categories(_, _)
\* current_data_category at each line of the file, from the category before
Categories(lines, current) ==
    IF lines = <<>> THEN <<>>
    ELSE LET next == CASE Head(lines).kind = "--Patient Data--" -> "patient"
                       [] Head(lines).kind = "--Not Patient Data--" -> "non_patient"
                       [] OTHER -> current
         IN  <<next>> \o Categories(Tail(lines), next)

\* patient_grouped_data / non_patient_grouped_data: column -> the values
\* of its data lines in the order of the file
grouped_data(lines, category) ==
    LET at == Categories(lines, "patient")
        mine == {i \in 1..Len(lines) : lines[i].kind = "data" /\ at[i] = category}
        RECURSIVE Values(_, _)
        Values(i, col) ==
            IF i > Len(lines) THEN <<>>
            ELSE (IF i \in mine /\ col_name(lines[i]) = col
                  THEN <<line_value(lines[i])>> ELSE <<>>) \o Values(i + 1, col)
    IN  [col \in {col_name(lines[i]) : i \in mine} |-> Values(1, col)]

\* _aggregate_grouped_data
aggregate_grouped_data(grouped) ==
    [key \in DOMAIN grouped |->
        LET non_null_values == SelectSeq(grouped[key], LAMBDA v : v # Null) IN
        IF Len(non_null_values) > 1 THEN json_dumps(grouped[key])
        ELSE IF non_null_values # <<>> THEN non_null_values[1] ELSE Null]

\* lines 73-76: the claim identifier of a file name without its extension
claim_of(stem) ==
    normalize_col(IF stem # <<>> /\ stem[Len(stem)] = "_output"
                  THEN SubSeq(stem, 1, Len(stem) - 1) ELSE stem)

\* lines 117 and 124: the row of the frame
record_final(claim, record) ==
    (ClaimIDColumn :> Text(claim)) @@
    [c \in {normalize_col(k) : k \in DOMAIN record} |->
        record[CHOOSE k \in DOMAIN record : normalize_col(k) = c]]

\* lines 114-126 of process_txt_file: the database after the two records
\* are written, a record without keys is not written
write_records(claim, patient_record, non_patient_record, db) ==
    LET after_patient ==
            IF DOMAIN patient_record # {}
            THEN write_df_to_table(db, record_final(claim, patient_record),
                                   "PatientData", claim)
            ELSE db
    IN  IF DOMAIN non_patient_record # {}
        THEN write_df_to_table(after_patient, record_final(claim, non_patient_record),
                               "NonPatientData", claim)
        ELSE after_patient

\* ---- inputs ----

MaxLines == 2

MaxIngests == 3

\* file names without extension: two spellings of one claim, and another
\* claim
Stems ==
    {<<"CLM1">>, <<"clm1", "_output">>, <<" ", "8956", "?">>}

Lines ==
    {PatientHeader, NotPatientHeader, OtherLine,
     DataLine3(<<"Is", " ", "Submitted", "?">>, <<"x">>, <<"Claim", " ", "Form">>),
     DataLine3(<<"is", "_", "submitted">>, <<"Not", " ", "in", " ", "scope">>,
               <<"claim", " ", "form">>)}

RECURSIVE Files(_)
\* the files of at most n lines
Files(n) ==
    IF n = 0 THEN {<<>>}
    ELSE Files(n - 1) \cup {Append(f, l) : f \in {g \in Files(n - 1) : Len(g) = n - 1},
                                           l \in Lines}

\* the rows of the claim in a table
ClaimRows(table, claim) ==
    SelectSeq(table.rows,
              LAMBDA r : ClaimIDColumn \in DOMAIN r /\ r[ClaimIDColumn] = Text(claim))

\* the two records process_txt_file aggregates from the lines of a file
Records(lines) ==
    [patient |-> aggregate_grouped_data(grouped_data(lines, "patient")),
     non_patient |-> aggregate_grouped_data(grouped_data(lines, "non_patient"))]

\* one file for each pair of records the files of at most MaxLines lines
\* yield: the call reads nothing else of the lines
TxtFiles ==
    {CHOOSE f \in Files(MaxLines) : Records(f) = r :
        r \in {Records(g) : g \in Files(MaxLines)}}

\* lines 78-115 and 122 for each of these files
ParsedFiles == [f \in TxtFiles |-> Records(f)]

\* one call of process_txt_file(file_path, conn)
Ingest ==
    /\ ingests < MaxIngests
    /\ \E stem \in Stems, lines \in TxtFiles :
           /\ claims_db' = write_records(claim_of(stem), ParsedFiles[lines].patient,
                                         ParsedFiles[lines].non_patient, claims_db)
           /\ file_path' = stem
           /\ replaced' =
                  IF DOMAIN ParsedFiles[lines].patient # {}
                  THEN Len(ClaimRows(claims_db["PatientData"], claim_of(stem)))
                  ELSE 0
    /\ ingests' = ingests + 1
    /\ UNCHANGED <<stores, eval_vars, doc_vars, l1_vars, l2_vars, cat_vars, req_vars>>

InitIngest ==
    /\ PatientData = Table(Row("x", " "))
    /\ Check_Rules = Catalog
    /\ DocIdle /\ EvalIdle /\ L1Idle /\ L2Idle /\ AuxIdle

NextIngest == Ingest

SpecIngest == InitIngest /\ [][NextIngest]_vars

\* ------------------------------------------------------------------------
\* ui_check_rules.render_check_rules_page: the Process Rules request
\* The request calls evaluate_submission_logic,
\* get_l1_rules_with_values_for_check_id and evaluate_l2_rule_with_gemini;
\* it starts their state machines and resumes when they are done.
\* ------------------------------------------------------------------------

\* a rule ID of the parsed list as a key of the catalog; the catalogs hold
\* no ID of more than two digits
IDString(id) == IF Len(id) = 1 THEN id[1] ELSE "CH100"

\* f"No Rule IDs found for procedure: {procedure_name}"
NoRuleIDsFound(procedure_name) ==
    [rule_id |-> <<>>,
     question |-> <<"No Rule IDs found for procedure: ", procedure_name>>]

\* f"{rid}: {desc}" as the two parts split(": ", 1) finds again; str(None)
\* is "None"
FormattedRule(rid, descriptions_map) ==
    [rule_id |-> rid,
     question |->
         LET desc == DictGetDefault(descriptions_map, IDString(rid)) IN
         IF desc = NULL THEN <<"None">> ELSE desc]

\* get_rules_for_procedure
get_rules_for_procedure(procedure_name) ==
    IF procedure_name = "" THEN <<>>
    ELSE LET parsed_rule_ids == get_parsed_rules_for_procedure(procedure_name).value.v IN
         IF parsed_rule_ids = <<>> THEN <<NoRuleIDsFound(procedure_name)>>
         ELSE LET descriptions_map ==
                      DescriptionsRead([i \in 1..Len(parsed_rule_ids) |->
                                           IDString(parsed_rule_ids[i])]).value.v
              IN  [i \in 1..Len(parsed_rule_ids) |->
                      FormattedRule(parsed_rule_ids[i], descriptions_map)]

RECURSIVE RemoveIsThe(_)
\* .replace("is the ", ""): the words is, the and the space after them
RemoveIsThe(w) ==
    IF w = <<>> THEN <<>>
    ELSE IF Len(w) >= 3 /\ w[1] = "is" /\ w[2] = "the" /\ w[3] # "?"
    THEN RemoveIsThe(SubSeq(w, 3, Len(w)))
    ELSE <<w[1]>> \o RemoveIsThe(Tail(w))

RECURSIVE RemoveSubmitted(_, _)
\* .replace(" submitted?", ""): the space before the word, the word and its
\* question mark; first tells that no space stands before w
RemoveSubmitted(w, first) ==
    IF w = <<>> THEN <<>>
    ELSE IF ~first /\ Len(w) >= 2 /\ w[1] = "submitted" /\ w[2] = "?"
    THEN RemoveSubmitted(SubSeq(w, 3, Len(w)), FALSE)
    ELSE <<w[1]>> \o RemoveSubmitted(Tail(w), FALSE)

RECURSIVE SplitOr(_, _)
\* .split(" or "): the word or with a word on each side separates
SplitOr(w, piece) ==
    IF w = <<>> THEN <<piece>>
    ELSE IF w[1] = "or" /\ piece # <<>> /\ Len(w) >= 2 /\ w[2] # "?"
    THEN <<piece>> \o SplitOr(Tail(w), <<>>)
    ELSE SplitOr(Tail(w), Append(piece, w[1]))

\* lines 120-121: document_keywords_to_check
document_keywords_to_check(question) ==
    SplitOr(RemoveSubmitted(RemoveIsThe(LowerSeq(question)), TRUE), <<>>)

\* line 123: any(check_document_submission_status(claim_id, keyword) ...)
overall_submission_status(claim, question) ==
    \E i \in 1..Len(document_keywords_to_check(question)) :
        check_document_submission_status(claim, document_keywords_to_check(question)[i])

\* line 124
status_text(status) == IF status THEN "Submitted: Yes" ELSE "Submitted: No"

\* a request that goes on after a failed pre-evaluation
AfterPreEvaluationProceeds(passed) == "rules"

\* lines 87-95: st.stop() when the checks did not pass
AfterPreEvaluation(passed) == IF passed THEN "rules" ELSE "stopped"

\* lines 74-80: the button, the two lists of the session are emptied and the
\* inputs checked
ProcessRules ==
    /\ ui_pc = "button"
    /\ fetched_rules_content_processed' = <<>>
    /\ l2_results_for_report' = <<>>
    /\ ui_pc' = IF ui_claim_id = "" \/ selected_procedure = ""
                   \/ selected_procedure = "No procedures found"
                THEN "warned" ELSE "expression"
    /\ UNCHANGED <<ui_claim_id, selected_procedure, ui_expression, is_passed,
                   failed_rules, rule_descriptions_list, ui_idx, l2_rules,
                   processed_rules_output, l2_results>>
    /\ UNCHANGED <<cat_vars, ing_vars, doc_vars, Check_Rules, L1_Rules>>
    /\ UNCHANGED <<PatientData, eval_vars, l1_pc, check_rule_id, l1_claim_id, rows,
                   l1_idx, results, executed_queries, l1_resolver_calls, l2_vars>>

\* line 83
FetchExpression ==
    /\ ui_pc = "expression"
    /\ ui_expression' = get_procedure_rules_expression(selected_procedure)
    /\ ui_pc' = "evaluate"
    /\ UNCHANGED <<ui_claim_id, selected_procedure, is_passed, failed_rules,
                   rule_descriptions_list, ui_idx, processed_rules_output,
                   l2_rules, l2_results>>
    /\ UNCHANGED <<fetched_rules_content_processed, l2_results_for_report>>
    /\ UNCHANGED <<cat_vars, ing_vars, doc_vars, Check_Rules, L1_Rules>>
    /\ UNCHANGED <<PatientData, eval_vars, l1_pc, check_rule_id, l1_claim_id, rows,
                   l1_idx, results, executed_queries, l1_resolver_calls, l2_vars>>

\* lines 85-86: evaluate_submission_logic is called when the expression is
\* not None and not empty
PreEvaluate ==
    /\ ui_pc = "evaluate"
    /\ IF Falsy(ui_expression.value)
       THEN /\ ui_pc' = "rules"
            /\ UNCHANGED <<expression_string, claim_id, pc>>
       ELSE /\ expression_string' = ui_expression.value.v
            /\ claim_id' = ui_claim_id
            /\ pc' = "call"
            /\ ui_pc' = "evaluating"
    /\ UNCHANGED <<ui_claim_id, selected_procedure, ui_expression, is_passed,
                   failed_rules, rule_descriptions_list, ui_idx,
                   processed_rules_output, l2_rules, l2_results>>
    /\ UNCHANGED <<fetched_rules_content_processed, l2_results_for_report>>
    /\ UNCHANGED <<cat_vars, ing_vars, doc_vars, Check_Rules, L1_Rules>>
    /\ UNCHANGED <<PatientData, rule_ids, rule_descriptions, rule_statuses,
                   failed_rules_descriptions, idx, expression, final_result,
                   catalog_queries, resolver_calls, tree,
                   l1_pc, check_rule_id, l1_claim_id, rows,
                   l1_idx, results, executed_queries, l1_resolver_calls, l2_vars>>

\* lines 86-95: is_passed, failed_rules = evaluate_submission_logic(...)
PreEvaluated ==
    /\ ui_pc = "evaluating"
    /\ pc = "done"
    /\ is_passed' = BoolStr(final_result)
    /\ failed_rules' = failed_rules_descriptions
    /\ ui_pc' = AfterPreEvaluation(final_result)
    /\ UNCHANGED <<ui_claim_id, selected_procedure, ui_expression,
                   rule_descriptions_list, ui_idx, processed_rules_output,
                   l2_rules, l2_results>>
    /\ UNCHANGED <<fetched_rules_content_processed, l2_results_for_report>>
    /\ UNCHANGED <<cat_vars, ing_vars, doc_vars, Check_Rules, L1_Rules>>
    /\ UNCHANGED <<PatientData, eval_vars, l1_pc, check_rule_id, l1_claim_id, rows,
                   l1_idx, results, executed_queries, l1_resolver_calls, l2_vars>>

\* lines 99-113: st.stop() without rules; every entry of a list that
\* passes line 101 starts with CH
FetchRules ==
    /\ ui_pc = "rules"
    /\ LET fetched_rules == get_rules_for_procedure(selected_procedure) IN
       IF fetched_rules = <<>> \/ fetched_rules[1].rule_id = <<>>
       THEN /\ ui_pc' = "stopped"
            /\ UNCHANGED <<rule_descriptions_list, ui_idx>>
       ELSE /\ rule_descriptions_list' = fetched_rules
            /\ ui_idx' = 1
            /\ ui_pc' = "l1"
    /\ UNCHANGED <<ui_claim_id, selected_procedure, ui_expression, is_passed,
                   failed_rules, processed_rules_output, l2_rules, l2_results>>
    /\ UNCHANGED <<fetched_rules_content_processed, l2_results_for_report>>
    /\ UNCHANGED <<cat_vars, ing_vars, doc_vars, Check_Rules, L1_Rules>>
    /\ UNCHANGED <<PatientData, eval_vars, l1_pc, check_rule_id, l1_claim_id, rows,
                   l1_idx, results, executed_queries, l1_resolver_calls, l2_vars>>

\* lines 115-128: one rule entry, up to the call of
\* get_l1_rules_with_values_for_check_id
RuleEntry ==
    /\ ui_pc = "l1"
    /\ ui_idx <= Len(rule_descriptions_list)
    /\ LET rule_entry == rule_descriptions_list[ui_idx] IN
       IF overall_submission_status(ui_claim_id, rule_entry.question)
       THEN /\ check_rule_id' = IDString(rule_entry.rule_id)
            /\ l1_claim_id' = ui_claim_id
            /\ l1_pc' = "call"
            /\ rows' = <<>>
            /\ l1_idx' = 1
            /\ results' = <<>>
            /\ ui_pc' = "l1_call"
            /\ UNCHANGED <<processed_rules_output, ui_idx>>
       ELSE /\ processed_rules_output' =
                   Append(processed_rules_output,
                          [rule_id |-> rule_entry.rule_id,
                           question |-> rule_entry.question,
                           status_text |-> status_text(FALSE), l1_rules |-> <<>>])
            /\ ui_idx' = ui_idx + 1
            /\ UNCHANGED <<ui_pc, l1_pc, check_rule_id, l1_claim_id, rows, l1_idx,
                           results>>
    /\ UNCHANGED <<ui_claim_id, selected_procedure, ui_expression, is_passed,
                   failed_rules, rule_descriptions_list, l2_rules, l2_results>>
    /\ UNCHANGED <<fetched_rules_content_processed, l2_results_for_report>>
    /\ UNCHANGED <<cat_vars, ing_vars, doc_vars, Check_Rules, L1_Rules>>
    /\ UNCHANGED <<PatientData, eval_vars, executed_queries, l1_resolver_calls, l2_vars>>

\* lines 128-131: the entries returned are kept with the rule
RuleEntryResolved ==
    /\ ui_pc = "l1_call"
    /\ l1_pc = "done"
    /\ LET rule_entry == rule_descriptions_list[ui_idx] IN
       processed_rules_output' =
           Append(processed_rules_output,
                  [rule_id |-> rule_entry.rule_id, question |-> rule_entry.question,
                   status_text |-> status_text(TRUE), l1_rules |-> results])
    /\ ui_idx' = ui_idx + 1
    /\ ui_pc' = "l1"
    /\ l1_pc' = "idle"
    /\ UNCHANGED <<ui_claim_id, selected_procedure, ui_expression, is_passed,
                   failed_rules, rule_descriptions_list, l2_rules, l2_results>>
    /\ UNCHANGED <<fetched_rules_content_processed, l2_results_for_report>>
    /\ UNCHANGED <<cat_vars, ing_vars, doc_vars, Check_Rules, L1_Rules>>
    /\ UNCHANGED <<PatientData, eval_vars, check_rule_id, l1_claim_id, rows, l1_idx,
                   results, executed_queries, l1_resolver_calls, l2_vars>>

\* lines 133-140: the rules processed are kept in the session and the
\* semantic rules are read
FetchL2Rules ==
    /\ ui_pc = "l1"
    /\ ui_idx > Len(rule_descriptions_list)
    /\ fetched_rules_content_processed' = processed_rules_output
    /\ l2_rules' = fetch_all_l2_rules_from_db.value.v
    /\ ui_idx' = 1
    /\ ui_pc' = "l2"
    /\ UNCHANGED <<ui_claim_id, selected_procedure, ui_expression, is_passed,
                   failed_rules, rule_descriptions_list, processed_rules_output,
                   l2_results>>
    /\ UNCHANGED l2_results_for_report
    /\ UNCHANGED <<cat_vars, ing_vars, doc_vars, Check_Rules, L1_Rules>>
    /\ UNCHANGED <<PatientData, eval_vars, l1_pc, check_rule_id, l1_claim_id, rows,
                   l1_idx, results, executed_queries, l1_resolver_calls, l2_vars>>

\* lines 141-148: the call of evaluate_l2_rule_with_gemini for one rule
L2Rule ==
    /\ ui_pc = "l2"
    /\ ui_idx <= Len(l2_rules)
    /\ l2_description' = l2_rules[ui_idx].description
    /\ l1_value' = l2_rules[ui_idx].l1_data_references
    /\ l2_claim_id' = ui_claim_id
    /\ l2_pc' = "prompt"
    /\ prompt' = <<>>
    /\ response' = NoResponse
    /\ evaluation' = NoEvaluation
    /\ l2_fetched' = <<>>
    /\ ui_pc' = "l2_call"
    /\ UNCHANGED <<ui_claim_id, selected_procedure, ui_expression, is_passed,
                   failed_rules, rule_descriptions_list, ui_idx,
                   processed_rules_output, l2_rules, l2_results>>
    /\ UNCHANGED <<fetched_rules_content_processed, l2_results_for_report>>
    /\ UNCHANGED <<cat_vars, ing_vars, doc_vars, Check_Rules, L1_Rules>>
    /\ UNCHANGED <<PatientData, eval_vars, l1_pc, check_rule_id, l1_claim_id, rows,
                   l1_idx, results, executed_queries, l1_resolver_calls,
                   prompt_file, model>>

\* line 157: evaluation if isinstance(evaluation, dict) else
\* {'error': str(evaluation)}
raw_evaluation(e) ==
    IF e.type = "dict" THEN e
    ELSE [type |-> "dict", keys |-> {"error"}, decision |-> "", reasoning |-> <<>>,
          text |-> e.text]

\* lines 149-158: the result of the rule; an exception of the call leaves
\* the handler
L2RuleJudged ==
    /\ ui_pc = "l2_call"
    /\ l2_pc = "done"
    /\ IF evaluation.type = "raise"
       THEN /\ ui_pc' = "raised"
            /\ UNCHANGED <<l2_results, ui_idx>>
       ELSE /\ l2_results' =
                   Append(l2_results,
                          [rule_id |-> l2_rules[ui_idx].rule_id,
                           description |-> l2_rules[ui_idx].description,
                           gemini_evaluation |-> DisplayedDecision(evaluation),
                           raw_evaluation |-> raw_evaluation(evaluation)])
            /\ ui_idx' = ui_idx + 1
            /\ ui_pc' = "l2"
    /\ l2_pc' = "idle"
    /\ UNCHANGED <<ui_claim_id, selected_procedure, ui_expression, is_passed,
                   failed_rules, rule_descriptions_list, processed_rules_output,
                   l2_rules>>
    /\ UNCHANGED <<fetched_rules_content_processed, l2_results_for_report>>
    /\ UNCHANGED <<cat_vars, ing_vars, doc_vars, Check_Rules, L1_Rules>>
    /\ UNCHANGED <<PatientData, eval_vars, l1_pc, check_rule_id, l1_claim_id, rows,
                   l1_idx, results, executed_queries, l1_resolver_calls,
                   l2_description, l1_value, l2_claim_id, prompt_file, model, prompt,
                   response, evaluation, l2_fetched>>

\* line 159
Finish ==
    /\ ui_pc = "l2"
    /\ ui_idx > Len(l2_rules)
    /\ l2_results_for_report' = l2_results
    /\ ui_pc' = "done"
    /\ UNCHANGED <<ui_claim_id, selected_procedure, ui_expression, is_passed,
                   failed_rules, rule_descriptions_list, ui_idx,
                   processed_rules_output, l2_rules, l2_results>>
    /\ UNCHANGED fetched_rules_content_processed
    /\ UNCHANGED <<cat_vars, ing_vars, doc_vars, Check_Rules, L1_Rules>>
    /\ UNCHANGED <<PatientData, eval_vars, l1_pc, check_rule_id, l1_claim_id, rows,
                   l1_idx, results, executed_queries, l1_resolver_calls, l2_vars>>

\* the catalog of the request: CH03 is submitted with either of two documents
AadhaarOrPan ==
    <<"Is", "the", "Aadhaar", "card", "or", "PAN", "card", "submitted", "?">>

RequestCatalog ==
    ("CH01" :> ClaimForm) @@ ("CH02" :> DischargeSummary) @@
    ("CH03" :> AadhaarOrPan) @@ ("CH13" :> PanCard) @@ ("CH10" :> NULL)

\* a row of L1_Rules whose stored text deletes the claim's row
PurgeRule ==
    FieldRule("L1_01_08", <<"Purge">>, DeleteQuery("?"))

\* the child of CH03
AadhaarNumberRule ==
    [rule_id |-> "L1_02_01", rule_description |-> <<"Aadhaar", "number">>,
     description |-> <<"Aadhaar", "number">>, check_rule_id |-> "CH03",
     sql_query |-> [select |-> <<Columns[5]>>, where |-> "?"]]

\* L1_Rules with and without the deleting row, with and without the column
\* description
RequestFieldTables ==
    {[columns |-> c, rows |-> r] :
        c \in {SiblingColumns, WithDescription},
        r \in {<<RuleById("L1_01_01"), DiagnosisRule, AadhaarNumberRule>>,
               <<RuleById("L1_01_01"), PurgeRule, DiagnosisRule, AadhaarNumberRule>>}}

\* the check rules of Day Care and its expression
RequestProcTables ==
    {ProcTable(ProcColumnsWithExpression, f, e) :
        f \in {PyStr(<<"[", "CH01", ",", " ", "(", "CH02", ",", " ", "CH03", ")", "]">>),
               PyStr(<<"CH13", ",", "CH10", ",", "CH04">>)},
        e \in {PyNone, PyStr(<<>>), PyStr(<<"[", "CH01", ",", " ", "CH02", "]">>),
               PyStr(<<"(", "CH01", ",", " ", "CH02", ")">>)}}
    \cup {ProcTable(ProcColumns, PyNone, PyNone),
          ProcTable(ProcColumnsWithExpression, PyNone, PyStr(<<"[", "CH01", "]">>))}

\* L2_Rules: a rule the judge answers in words, one that reads the values
\* of field rules, one without description, and a table without references
RequestSemanticTables ==
    {[columns |-> L2ColumnsWithReferences,
      rows |-> <<[rule_id |-> "L2_01", rule_description |-> d, L1_rule_id |-> r]>>] :
        d \in {PyNone, PyStr(<<"Verify", "the", "date">>),
               PyStr(<<"Check", "if", "the", "names", "are", "the", "same">>)},
        r \in {PyStr(<<"Claim form", ":", "L1_01_01">>)}}
    \cup {[columns |-> L2Columns,
           rows |-> <<[rule_id |-> "L2_01",
                       rule_description |-> PyStr(<<"Verify", "the", "date">>),
                       L1_rule_id |-> PyNone]>>]}

\* the request on a catalog that is there, and the requests that end early
InitRequest ==
    /\ Check_Rules = RequestCatalog
    /\ PatientData \in FourTables
    /\ \/ /\ rules_db = "ok"
          /\ Procedure_rules \in RequestProcTables
          /\ L1_Rules \in RequestFieldTables
          /\ L2_Rules \in RequestSemanticTables
          /\ model \in {"none", "ok"}
          /\ ui_claim_id = TestClaim
          /\ selected_procedure = "Day Care"
       \/ /\ rules_db \in {"ok", "missing"}
          /\ Procedure_rules =
                 ProcTable(ProcColumnsWithExpression, PyStr(<<"CH13", ",", "CH10", ",", "CH04">>),
                           PyStr(<<"[", "CH01", ",", " ", "CH02", "]">>))
          /\ L1_Rules = [columns |-> WithDescription,
                         rows |-> <<RuleById("L1_01_01"), DiagnosisRule, AadhaarNumberRule>>]
          /\ L2_Rules \in RequestSemanticTables
          /\ model = "ok"
          /\ ui_claim_id \in {TestClaim, "0000", ""}
          /\ selected_procedure \in {"Day Care", "Dialysis", "No procedures found", ""}
    /\ cat_call = [f |-> "none", arg |-> <<>>]
    /\ cat_result = [raised |-> "none", value |-> <<>>]
    /\ DocIdle /\ EvalIdle /\ IngIdle
    /\ l1_pc = "idle"
    /\ check_rule_id = ""
    /\ l1_claim_id = ""
    /\ rows = <<>>
    /\ l1_idx = 1
    /\ results = <<>>
    /\ executed_queries = <<>>
    /\ l1_resolver_calls = <<>>
    /\ l2_pc = "idle"
    /\ l2_description = <<>>
    /\ l1_value = <<>>
    /\ l2_claim_id = ""
    /\ prompt_file = "json"
    /\ prompt = <<>>
    /\ response = NoResponse
    /\ evaluation = NoEvaluation
    /\ l2_fetched = <<>>
    /\ ui_pc = "button"
    /\ ui_expression = Pending
    /\ is_passed = ""
    /\ failed_rules = <<>>
    /\ rule_descriptions_list = <<>>
    /\ ui_idx = 1
    /\ processed_rules_output = <<>>
    /\ l2_rules = <<>>
    /\ l2_results = <<>>
    /\ \E previous \in {<<>>, <<"CH01">>} :
           /\ fetched_rules_content_processed = previous
           /\ l2_results_for_report = previous

NextRequest ==
    \/ ProcessRules
    \/ FetchExpression
    \/ PreEvaluate
    \/ Call
    \/ CheckRule
    \/ Substitute
    \/ ReducePass
    \/ Return
    \/ PreEvaluated
    \/ FetchRules
    \/ RuleEntry
    \/ L1Call
    \/ L1Row
    \/ L1Return
    \/ RuleEntryResolved
    \/ FetchL2Rules
    \/ L2Rule
    \/ L2Prompt
    \/ L2Generate
    \/ L2Parse
    \/ L2RuleJudged
    \/ Finish

SpecRequest == InitRequest /\ [][NextRequest]_vars


\* ------------------------------------------------------------------------
\* Properties
\* ------------------------------------------------------------------------

\* C1: for the text of every expression tree (leaves are rule IDs the
\* evaluator's leaf pattern admits, groups nested to any depth, nothing
\* outside the outermost group) and every status of its leaves,
\* evaluate_submission_logic returns the value of the bottom-up evaluation of
\* the tree: AND for [...], OR for (...).
C1_TreeValue ==
    (pc = "done" /\ tree # NoTree) => final_result = EvalTree(tree, rule_statuses)

\* [CH01, (CH02, CH03)] with CH01 = True, CH02 = False, CH03 = True is True
C1_Witness ==
    /\ pc = "done"
    /\ tree = TestTree
    /\ rule_statuses = ("CH01" :> TRUE) @@ ("CH02" :> FALSE) @@ ("CH03" :> TRUE)
    /\ final_result = TRUE

\* the boolean literals of a text, in order
Literals(s) == SelectSeq(s, LAMBDA t : t \in BoolWords)

\* C2: a single group of boolean literals evaluates to the conjunction of the
\* literals when written [...] and to their disjunction when written (...).
C2_SingleGroup ==
    (pc = "done" /\ expression_string \in LiteralGroups) =>
        final_result =
            IF expression_string[1] = "["
            THEN \A i \in 1..Len(Literals(expression_string)) :
                     Literals(expression_string)[i] = "True"
            ELSE \E i \in 1..Len(Literals(expression_string)) :
                     Literals(expression_string)[i] = "True"

\* "(False, True)" has been evaluated to True
C2_Witness ==
    /\ pc = "done"
    /\ expression_string = <<"(", "False", ",", " ", "True", ")">>
    /\ final_result = TRUE

\* the rule IDs the for loop has handled so far that have a description
DescribedHandled == SelectSeq(SubSeq(rule_ids, 1, idx - 1), HasDescription)

\* C3: every collected leaf ID without a description in the catalog (no row,
\* or a row with a NULL description) gets the status False, the resolver is
\* called for the described IDs only, and the failure list holds the entry
\* "<ID>: Rule definition not found in database." for it; "[CH01, CH04]" with
\* CH04 absent from the catalog is False with the entry of CH04.
C3_MissingDescription ==
    /\ \A i \in 1..(idx - 1) :
           ~HasDescription(rule_ids[i]) =>
               /\ rule_statuses[rule_ids[i]] = FALSE
               /\ \E k \in 1..Len(failed_rules_descriptions) :
                      failed_rules_descriptions[k] = NotFoundMessage(rule_ids[i])
    /\ resolver_calls =
           [i \in 1..Len(DescribedHandled) |-> Check_Rules[DescribedHandled[i]]]
    /\ (pc = "done" /\ expression_string = <<"[", "CH01", ",", " ", "CH04", "]">>) =>
           /\ final_result = FALSE
           /\ \E k \in 1..Len(failed_rules_descriptions) :
                  failed_rules_descriptions[k] = NotFoundMessage("CH04")

\* "[CH01, CH04]" has returned False, CH04 named and the resolver called for
\* CH01 only
C3_Witness ==
    /\ pc = "done"
    /\ expression_string = <<"[", "CH01", ",", " ", "CH04", "]">>
    /\ final_result = FALSE
    /\ rule_statuses["CH04"] = FALSE
    /\ resolver_calls = <<ClaimForm>>
    /\ \E k \in 1..Len(failed_rules_descriptions) :
           failed_rules_descriptions[k] = NotFoundMessage("CH04")

\* C4: every empty or malformed expression text, malformed texts that hold
\* rule IDs included, returns overall True with an empty failure list.
C4_MalformedPasses ==
    (pc = "done" /\ (expression_string = <<>> \/ ~WellFormed(expression_string))) =>
        (final_result = TRUE /\ failed_rules_descriptions = <<>>)

\* ------------------------------------------------------------------------
\* A comma-separated list of boolean literals, as a list display reads it:
\* the text between two commas is one literal with spaces around it; the text
\* after the last comma may be blank (a trailing comma, or the empty list
\* when there is no comma at all)
\* ------------------------------------------------------------------------

CommaPositions(c) == {i \in 1..Len(c) : c[i] = ","}

\* the segment that ends before position e (a comma or Len(c) + 1)
SegmentBefore(c, e) ==
    LET b == IF \E k \in CommaPositions(c) : k < e
             THEN Max({k \in CommaPositions(c) : k < e}) ELSE 0
    IN  SubSeq(c, b + 1, e - 1)

NonSpaces(seg) == SelectSeq(seg, LAMBDA t : t \notin Whitespace)

IsLiteralSegment(seg) == Len(NonSpaces(seg)) = 1 /\ NonSpaces(seg)[1] \in BoolWords

IsBoolList(c) ==
    /\ \A k \in CommaPositions(c) : IsLiteralSegment(SegmentBefore(c, k))
    /\ LET last == SegmentBefore(c, Len(c) + 1) IN
       IsLiteralSegment(last) \/ NonSpaces(last) = <<>>

\* some group the pattern finds in e has a content that is no such list
BadGroup(e) ==
    \E i \in 1..Len(FindIter(e, 1)) :
        ~IsBoolList(SubSeq(e, FindIter(e, 1)[i][1] + 1, FindIter(e, 1)[i][2] - 1))

\* C5: when a group found by a pass of the reduction has a content that is
\* not a comma-separated list of boolean literals, the pass ends the call
\* with the result False.
C5_BadGroupIsFalse ==
    [][(pc = "reduce" /\ BadGroup(expression)) =>
           (pc' = "done" /\ final_result' = FALSE)]_vars

\* the call has returned False on a text that still holds the bad group
C5_Witness ==
    /\ pc = "done"
    /\ BadGroup(expression)
    /\ final_result = FALSE

\* the entry of the failure list for a rule
FailureEntry(rule_id) ==
    IF HasDescription(rule_id) THEN Check_Rules[rule_id] ELSE NotFoundMessage(rule_id)

\* the leaves with status False, in ascending order of ID
FalseLeaves ==
    SelectSeq(IDOrder, LAMBDA x : x \in DOMAIN rule_statuses /\ ~rule_statuses[x])

\* C6: the returned failure list has exactly one entry for every distinct leaf
\* whose status is False (its description, or the not-found message), none for
\* a leaf whose status is True, in ascending order of leaf ID, whatever the
\* overall result is.
C6_FailureList ==
    pc = "done" =>
        /\ DOMAIN rule_statuses = FindLeafIDs(expression_string)
        /\ failed_rules_descriptions =
               [i \in 1..Len(FalseLeaves) |-> FailureEntry(FalseLeaves[i])]

\* "(CH04,CH02,CH01)" is True and its failure list names CH02 before CH04
C6_Witness ==
    /\ pc = "done"
    /\ expression_string = <<"(", "CH04", ",", "CH02", ",", "CH01", ")">>
    /\ final_result = TRUE
    /\ failed_rules_descriptions = <<DischargeSummary, NotFoundMessage("CH04")>>

\* C7: overall False always comes with at least one failure reason.
C7_FalseHasReason ==
    (pc = "done" /\ final_result = FALSE) => failed_rules_descriptions # <<>>

\* C8: spaces written around the commas and brackets of a well-formed
\* expression, before the outermost opening bracket and after the outermost
\* closing bracket included, do not change the overall result: the text with
\* the spaces evaluates as the text without them.
C8_SpacesInsignificant ==
    pc = "done" => final_result = submission_result(Render(tree, <<",">>), claim_id)

\* C9: the leaf IDs the evaluator collects are the IDs, CH and two or more
\* digits, that get_parsed_rules_for_procedure extracts from the same text.
C9_SameLeafSet ==
    pc # "call" => {<<rule_ids[i]>> : i \in 1..Len(rule_ids)} = ParseRuleIDs(expression_string)

\* no rule ID, CH and two digits, stands as a word of its own in the text
NoLeaf(s) ==
    \A i \in 1..Len(s) :
        s[i] \in TwoDigitIDs =>
            (i > 1 /\ IsWord(s[i - 1])) \/ (i < Len(s) /\ IsWord(s[i + 1]))

\* C10: a text with no rule-ID leaf returns overall True with an empty failure
\* list, and neither the catalog nor the claim store is read.
C10_NoLeafPasses ==
    (pc = "done" /\ NoLeaf(expression_string)) =>
        /\ final_result = TRUE
        /\ failed_rules_descriptions = <<>>
        /\ catalog_queries = 0
        /\ resolver_calls = <<>>

\* "(,)" holds no rule ID and has passed without a read of either store
C10_Witness ==
    /\ pc = "done"
    /\ expression_string = <<"(", ",", ")">>
    /\ final_result = TRUE
    /\ catalog_queries = 0
    /\ resolver_calls = <<>>

\* the keyword of a description: the X of "Is the X submitted?", or else the
\* whole description, in lower case with underscores for spaces
ExpectedKeyword(d) ==
    CASE d = ClaimForm -> <<"claim", "_", "form">>
      [] d = ShoutedClaimForm -> <<"claim", "_", "form">>
      [] d = DischargeSummary -> <<"discharge", "_", "summary">>
      [] d = AadhaarCard -> <<"aadhaar", "_", "card">>
      [] d = PanCard -> <<"pan", "_", "card">>
      [] d = NoDocument -> <<"is", "_", "the", "_", "submitted", "?">>
      [] d = ClaimWord -> <<"claim">>

\* the column name holds the keyword
Contains(col, kw) ==
    \E k \in 0..(Len(col) - Len(kw)) : SubSeq(col, k + 1, k + Len(kw)) = kw

\* the claim has a row, and in it a column whose lowercased name contains the
\* keyword holds a value that is not null and not blank
HoldsData(pd, claim, d) ==
    /\ claim \in DOMAIN pd.rows
    /\ \E i \in 1..Len(pd.columns) :
           /\ Contains(LowerSeq(pd.columns[i]), ExpectedKeyword(d))
           /\ pd.rows[claim][pd.columns[i]] \notin {NULL, "", " "}

\* C11: for a claim identifier and a description that are given,
\* check_document_submission_status returns True exactly when the claim has
\* a row in which some column whose name contains the normalized keyword
\* holds a non-null, non-blank value; False when no column matches, when the
\* claim has no row and when every matched column is null or blank.
C11_SubmittedIff ==
    (doc_claim_id # "" /\ document_keyword # <<>>) =>
        \A i \in 1..Len(doc_calls) :
            doc_calls[i].version = version =>
                doc_calls[i].result = HoldsData(PatientData, doc_claim_id, document_keyword)

\* "claim form" matches two columns, one empty and one filled: True
C11_Witness ==
    /\ doc_claim_id = TestClaim
    /\ document_keyword = ClaimForm
    /\ version = 0
    /\ TestClaim \in DOMAIN PatientData.rows
    /\ PatientData.rows[TestClaim][Columns[2]] = ""
    /\ PatientData.rows[TestClaim][Columns[3]] = "x"
    /\ Len(doc_calls) >= 1
    /\ doc_calls[1].result = TRUE

Reached == check_rule_id # "" /\ l1_claim_id # ""

\* the catalog has no description for the check rule, or an empty one
ParentMissing ==
    \/ ~HasDescription(check_rule_id)
    \/ Check_Rules[check_rule_id] = <<>>

\* the parent document is submitted for the claim
ParentSubmitted ==
    /\ ~ParentMissing
    /\ HoldsData(PatientData, l1_claim_id, Check_Rules[check_rule_id])

\* the child FieldRules of the check rule, in catalog order
Children == SelectSeq(L1_Rules.rows, LAMBDA r : r.check_rule_id = check_rule_id)

\* C13: when the parent document is not submitted, the result has exactly
\* one entry per child FieldRule of the check rule, each with the value
\* "Not submitted".
C13_NotSubmittedEntries ==
    (l1_pc = "done" /\ Reached /\ ~ParentMissing /\ ~ParentSubmitted) =>
        results = [i \in 1..Len(Children) |->
                      [description |-> Children[i].rule_description,
                       value |-> PyStr(<<"Not submitted">>)]]

\* C14: when the parent document is not submitted or the parent description
\* is missing, no stored extraction query of a child FieldRule is executed
\* on the claim store.
C14_NoQueryExecuted ==
    (ParentMissing \/ ~ParentSubmitted) => executed_queries = <<>>

\* CH01 has children with queries, the claim form is not submitted, the call
\* has asked the resolver and returned without a query
C14_Witness ==
    /\ l1_pc = "done"
    /\ check_rule_id = "CH01"
    /\ l1_claim_id = TestClaim
    /\ ~ParentMissing /\ ~ParentSubmitted
    /\ \E i \in 1..Len(Children) : Children[i].sql_query # NoQuery
    /\ l1_resolver_calls = <<ClaimForm>>
    /\ executed_queries = <<>>

Runs(q) == \A i \in 1..Len(q.select) : q.select[i] \in ToSet(PatientData.columns)

\* the claim whose row the query reads
KeyOf(q) == IF q.where = "?" THEN l1_claim_id ELSE q.where

\* the value of a query that runs: "N/A" without row, the scalar of a
\* one-column row, the whole row otherwise
ExpectedValue(q) ==
    IF KeyOf(q) \notin DOMAIN PatientData.rows THEN PyStr(<<"N/A">>)
    ELSE IF Len(q.select) = 1
         THEN FromCell(PatientData.rows[KeyOf(q)][q.select[1]])
         ELSE PyTuple([i \in 1..Len(q.select) |-> PatientData.rows[KeyOf(q)][q.select[i]]])

\* C16: when the parent document is submitted, the value of each child
\* FieldRule whose query runs is "N/A" when the query returns no row, the
\* scalar when the row has one column and the whole row when it has several;
\* the claim identifier is bound exactly when the template has the
\* placeholder.
C16_ValueOfQuery ==
    (l1_pc = "done" /\ Reached /\ ParentSubmitted) =>
        /\ \A i \in 1..Len(results) : \A k \in 1..Len(Children) :
               (/\ Children[k].rule_id = results[i].rule_id
                /\ Children[k].sql_query # NoQuery
                /\ Runs(Children[k].sql_query)) =>
                   results[i].value = ExpectedValue(Children[k].sql_query)
        /\ \A j \in 1..Len(executed_queries) :
               executed_queries[j].params =
                   IF executed_queries[j].sql_query.where = "?"
                   THEN <<l1_claim_id>> ELSE <<>>

\* a two-column query has given the row and a query on a claim without row
\* "N/A", the second run as it stands
C16_Witness ==
    /\ l1_pc = "done"
    /\ ParentSubmitted
    /\ Len(results) = 2
    /\ results[1].value = PyTuple(<<"x", "x">>)
    /\ results[2].value = PyStr(<<"N/A">>)
    /\ executed_queries[1].params = <<TestClaim>>
    /\ executed_queries[2].params = <<>>

\* C17: when the parent document is submitted, the result has one entry per
\* child FieldRule in catalog order; a child whose query fails has an error
\* string as its value and every child whose query runs has its real value.
C17_ErrorIsContained ==
    (l1_pc = "done" /\ Reached /\ ParentSubmitted) =>
        /\ Len(results) = Len(Children)
        /\ \A i \in 1..Len(results) :
               /\ results[i].rule_id = Children[i].rule_id
               /\ Children[i].sql_query # NoQuery =>
                      IF Runs(Children[i].sql_query)
                      THEN results[i].value = ExpectedValue(Children[i].sql_query)
                      ELSE /\ results[i].value.type = "str"
                           /\ results[i].value.v[1] = "Error executing SQL: "

\* the first child's query has failed and the second child has its value
C17_Witness ==
    /\ l1_pc = "done"
    /\ ParentSubmitted
    /\ Len(results) = 2
    /\ results[1].rule_id = "L1_01_04"
    /\ results[1].value = PyStr(<<"Error executing SQL: ", "no such column">>)
    /\ results[2].rule_id = "L1_01_01"
    /\ results[2].value = PyStr(<<"x">>)

\* ---- the semantic judge ----

\* the call has returned a value to its caller
Returned == l2_pc = "done" /\ evaluation.type \notin {"none", "raise"}

\* the three decisions of the contract
Decisions == {"Pass", "Fail", "Cannot Determine"}

\* C18: whenever evaluate_l2_rule_with_gemini returns, for every rule
\* description, reference text and judge response, the value is a record
\* with a 'decision' that is exactly Pass, Fail or Cannot Determine, and a
\* reasoning.
C18_DecisionRecord ==
    Returned =>
        /\ evaluation.type = "dict"
        /\ {"decision", "reasoning"} \subseteq evaluation.keys
        /\ evaluation.decision \in Decisions

\* the judge answered with a text and the call read it
Answered == l2_pc = "done" /\ response.kind = "text"

\* the answer is in the format its path expects: a JSON object, fenced or
\* not, on the structured path, one of the three words on the plain path
StrictlyParsed ==
    IF ExpectsJSON(prompt)
    THEN json_loads(StripFences(response.text)).ok
    ELSE RemoveDots(Strip(response.text)) \in {<<d>> : d \in Decisions}

\* the positions of decision tokens in a text
TokenPositions(text) == {i \in 1..Len(text) : text[i] \in {ODPass, ODFail, ODPASS}}

\* the word of the first decision token of a text, as the text writes it
EmbeddedDecision(text) ==
    LET i == CHOOSE k \in TokenPositions(text) : \A j \in TokenPositions(text) : k <= j
    IN  IF text[i] = ODPass THEN "Pass" ELSE IF text[i] = ODFail THEN "Fail" ELSE "PASS"

\* C19: on the structured path and on the plain path alike, an answer that
\* cannot be parsed strictly yields the decision of the decision token
\* embedded in it, and without such a token yields Cannot Determine with
\* the raw answer in the reasoning.
C19_DegradePath ==
    Answered /\ ~StrictlyParsed =>
        /\ evaluation.type = "dict"
        /\ "decision" \in evaluation.keys
        /\ IF TokenPositions(response.text) # {}
           THEN evaluation.decision = EmbeddedDecision(response.text)
           ELSE /\ evaluation.decision = "Cannot Determine"
                /\ InText(response.text, evaluation.reasoning)

\* C20: evaluate_l2_rule_with_gemini never raises to its caller, whatever
\* the description, the reference text, the field lookups and the judge
\* do, and on a service error of the judge it returns the Cannot Determine
\* decision.
C20_NeverRaises ==
    l2_pc = "done" =>
        /\ evaluation.type # "raise"
        /\ response.kind = "raise" =>
               /\ evaluation.type = "dict"
               /\ "decision" \in evaluation.keys
               /\ evaluation.decision = "Cannot Determine"

\* ------------------------------------------------------------------------
\* The reduction loop
\* ------------------------------------------------------------------------

\* the number of brackets of a text
Brackets(s) == Cardinality({i \in 1..Len(s) : s[i] \in Openers \cup Closers})

\* C25: _evaluate_logical_expression terminates: every pass of the
\* reduction loop either returns False or leaves a text with fewer
\* brackets, at least one group having been removed, whether the groups
\* are nested, repeated, siblings or malformed.
C25_PassRemovesGroup ==
    [][(pc = "reduce" /\ Search(expression)) =>
           \/ pc' = "done" /\ final_result' = FALSE
           \/ /\ pc' = "reduce"
              /\ Brackets(expression') + 2 <= Brackets(expression)]_vars

\* a pass has removed a group of a nested text and another pass is due
C25_Witness ==
    /\ pc = "reduce"
    /\ Search(expression)
    /\ Brackets(expression) < Brackets(expression_string)

\* the status maps over the same leaves in which every leaf True in s is True
MapsAbove(s) == {t \in [DOMAIN s -> BOOLEAN] : \A k \in DOMAIN s : s[k] => t[k]}

\* the evaluator has run on the statuses of the leaves
Evaluated == pc = "done" /\ rule_ids # <<>>

\* C28: the evaluator is monotone in its leaves: when it returns True
\* under a status map it returns True under every status map in which
\* every leaf True in the first is True.
C28_Monotone ==
    (Evaluated /\ final_result) =>
        \A t \in MapsAbove(rule_statuses) :
            evaluate_logical_expression(expression_string, rule_ids, t)

\* a passing expression with a leaf that is not submitted
C28_Witness ==
    /\ Evaluated
    /\ final_result
    /\ \E k \in DOMAIN rule_statuses : ~rule_statuses[k]

\* a text that is one group whose closing bracket is not of the type of its
\* opening bracket: the opener, elements and commas, the other closer
MismatchedGroup(s) ==
    /\ Len(s) >= 3
    /\ \/ s[1] = "[" /\ s[Len(s)] = ")"
       \/ s[1] = "(" /\ s[Len(s)] = "]"
    /\ \A i \in 2..(Len(s) - 1) : IsContent(s[i])

\* the elements of a one-group text, as booleans
Elements(s) == literal_eval(SubSeq(s, 2, Len(s) - 1))

\* C30: a group is reduced as AND or OR only when its closing bracket has
\* the type of its opening bracket: a pass of the loop over a text that
\* opens with one type and closes with the other never rewrites it to the
\* AND or the OR of its elements.
C30_MatchingBrackets ==
    [][(pc = "reduce" /\ MismatchedGroup(expression) /\ Elements(expression).ok) =>
           expression' \notin {<<BoolStr(all(Elements(expression).list))>>,
                               <<BoolStr(any(Elements(expression).list))>>}]_vars

\* ------------------------------------------------------------------------
\* The rule catalog
\* ------------------------------------------------------------------------

RECURSIVE WordsFrom(_, _)
\* the words of a text: the longest runs of word tokens, in order; word is
\* the run being read
WordsFrom(s, word) ==
    IF s = <<>> THEN (IF word = <<>> THEN <<>> ELSE <<word>>)
    ELSE IF IsWord(Head(s)) THEN WordsFrom(Tail(s), Append(word, Head(s)))
    ELSE (IF word = <<>> THEN <<>> ELSE <<word>>) \o WordsFrom(Tail(s), <<>>)

\* a word that is CH followed by two or more digits
IsRuleID(w) == w[1] \in TwoDigitIDs /\ \A k \in 2..Len(w) : w[k] \in Digits

\* the rule IDs among the words of a text, in order of appearance
RuleIDsOf(s) == SelectSeq(WordsFrom(s, <<>>), IsRuleID)

\* the store is read without error
CatalogReadable ==
    rules_db = "ok" /\ {"Proc_Name", "Check_Rules"} \subseteq Procedure_rules.columns

\* the check-rule field of the procedure read, None when it is unknown
FieldRead ==
    IF ProcRows(cat_call.arg[1]) = <<>> THEN PyNone
    ELSE ProcRows(cat_call.arg[1])[1].Check_Rules

\* C21: get_parsed_rules_for_procedure returns, in order of appearance,
\* every word of the procedure's check-rule field that is CH followed by
\* two or more digits, whatever brackets, parentheses, commas and blanks
\* stand around the words, and the empty list when the procedure is
\* unknown or its field is empty.
C21_ParsedRuleIDs ==
    (cat_call.f = "get_parsed_rules_for_procedure" /\ cat_result # Pending
     /\ CatalogReadable) =>
        /\ cat_result.raised = "none"
        /\ cat_result.value =
               PyList(IF FieldRead \in {PyNone, PyStr(<<>>)} THEN <<>>
                      ELSE RuleIDsOf(FieldRead.v))

\* the field CH01,CH100, CH01 has been parsed: a repeated ID and an ID of
\* three digits
C21_Witness ==
    /\ cat_call.f = "get_parsed_rules_for_procedure"
    /\ cat_result = Returns(PyList(<< <<"CH01">>, <<"CH10", "0">>, <<"CH01">> >>))

\* the empty results: the empty list, the empty map and None
EmptyResults == {PyList(<<>>), PyDict(<<>>), PyNone}

\* the IDs a description lookup was called with
AskedIDs == {cat_call.arg[i] : i \in 1..Len(cat_call.arg)}

\* C22: every read of the rule catalog (procedure names, check-rule field,
\* expression, descriptions for IDs, field rules of a check rule, semantic
\* rules) raises nothing, and returns an empty result (empty list, empty
\* map or None) when the rule store is missing or a storage error occurs;
\* the description lookup leaves out an ID that has no row in the store
\* and reports the descriptions of the others.
C22_EmptyOnStorageError ==
    cat_result # Pending =>
        /\ cat_result.raised = "none"
        /\ rules_db # "ok" => cat_result.value \in EmptyResults
        /\ (cat_call.f = "fetch_rule_descriptions_for_ids_from_db" /\ rules_db = "ok") =>
               /\ cat_result.value.type = "dict"
               /\ DOMAIN cat_result.value.v = AskedIDs \cap DOMAIN Check_Rules
               /\ \A k \in DOMAIN cat_result.value.v :
                      cat_result.value.v[k] = Check_Rules[k]

\* the semantic rules have been read from a store that is not a database
C22_Witness ==
    /\ rules_db = "corrupt"
    /\ cat_call.f = "fetch_all_l2_rules_from_db"
    /\ L2_Rules.rows # <<>>
    /\ cat_result = Returns(PyList(<<>>))

\* ------------------------------------------------------------------------
\* The claim store under ingests
\* ------------------------------------------------------------------------

\* no two rows of the table carry the same claim identifier
OneRowPerClaim(table) ==
    \A i, j \in 1..Len(table.rows) :
        table.rows[i][ClaimIDColumn] = table.rows[j][ClaimIDColumn] => i = j

\* C27: after any sequence of process_txt_file ingests the table
\* PatientData holds at most one row per claim identifier: an ingest of a
\* claim that has a row leaves the claim with one row and the table with as
\* many rows as before, and every row of another claim stays in the table.
C27_OneRowPerClaim ==
    [][LET old == claims_db["PatientData"]
           new == claims_db'["PatientData"]
           claim == claim_of(file_path')
       IN  /\ OneRowPerClaim(new)
           /\ \A i \in 1..Len(old.rows) :
                  old.rows[i][ClaimIDColumn] # Text(claim) =>
                      \E j \in 1..Len(new.rows) : new.rows[j] = old.rows[i]
           /\ replaced' >= 1 =>
                  /\ Len(ClaimRows(new, claim)) = 1
                  /\ Len(new.rows) = Len(old.rows)]_vars

\* a claim has been ingested again while another claim has a row
C27_Witness ==
    /\ replaced = 1
    /\ Len(claims_db["PatientData"].rows) = 2
    /\ Len(ClaimRows(claims_db["PatientData"], claim_of(file_path))) = 1

\* ------------------------------------------------------------------------
\* The evidence of a semantic rule
\* ------------------------------------------------------------------------

\* the comma-separated pieces of the reference text
ReferencePieces == Split(l1_value.v, ",", <<>>)

\* the reference text is a list of label:FieldRuleID pairs
PairsReference ==
    /\ l1_value # PyNone
    /\ \A i \in 1..Len(ReferencePieces) :
           \E k \in 1..Len(ReferencePieces[i]) : ReferencePieces[i][k] = ":"

\* the label and the FieldRule ID of the i-th pair: the text before and
\* after its first colon, without the blanks around them
PairLabel(i) ==
    LET piece == ReferencePieces[i]
        colon == Min({k \in 1..Len(piece) : piece[k] = ":"})
    IN  Strip(SubSeq(piece, 1, colon - 1))

PairRuleID(i) ==
    LET piece == ReferencePieces[i]
        colon == Min({k \in 1..Len(piece) : piece[k] = ":"})
    IN  Strip(SubSeq(piece, colon + 1, Len(piece)))

\* the call has built its prompt or returned
PromptBuilt == l2_pc \in {"generate", "parse", "done"} /\ l2_description # PyNone

\* C26: on the comparison path the evidence has exactly one item per
\* label:FieldRuleID pair of the reference text, in the order of the pairs,
\* each value being what _fetch_data_for_l1_rule resolves for that
\* FieldRule and the claim; the prompt names the first item as the primary
\* source and lists the remaining items, in order, as the secondary
\* sources.  On the plain path no FieldRule is resolved and the reference
\* text is the data of the prompt, unchanged.
C26_EvidenceOrder ==
    (PromptBuilt /\ l1_value # PyNone) =>
        IF IsComplex(l2_description.v)
        THEN PairsReference =>
                 /\ Len(l2_fetched) = Len(ReferencePieces)
                 /\ \A i \in 1..Len(l2_fetched) :
                        /\ l2_fetched[i].document = PairLabel(i)
                        /\ l2_fetched[i].value =
                               fetch_data_for_l1_rule(PairRuleID(i), l2_claim_id)
                 /\ prompt_file \in {"json", "plain"} =>
                        prompt = <<Templates[prompt_file][1]>> \o l2_description.v
                                 \o PairLabel(1)
                                 \o fetch_data_for_l1_rule(PairRuleID(1), l2_claim_id)
                                 \o JoinLines([i \in 1..(Len(ReferencePieces) - 1) |->
                                        <<"-">> \o PairLabel(i + 1) \o <<":">>
                                        \o fetch_data_for_l1_rule(PairRuleID(i + 1),
                                                                  l2_claim_id)])
        ELSE /\ l2_fetched = <<>>
             /\ prompt = <<"Rule: ">> \o l2_description.v \o <<"Data: ">> \o l1_value.v
                          \o SubSeq(prompt, Len(prompt) - 1, Len(prompt))

\* a comparison over three pairs whose first two values differ has built
\* its prompt
C26_Witness ==
    /\ l2_pc = "generate"
    /\ prompt_file = "json"
    /\ Len(l2_fetched) = 3
    /\ l2_fetched[1].value # l2_fetched[2].value
    /\ l2_fetched[1].document = <<"Claim form">>

\* a field-level or semantic processing step of the request has been taken
DetailStarted ==
    \/ ui_pc \in {"l1", "l1_call", "l2", "l2_call", "done", "raised"}
    \/ l1_pc # "idle" \/ l1_resolver_calls # <<>> \/ executed_queries # <<>>
    \/ l2_pc # "idle" \/ prompt # <<>> \/ response # NoResponse
    \/ evaluation # NoEvaluation

\* C24: when the procedure has a non-empty expression, the request
\* evaluates it before any field-level or semantic processing; when the
\* evaluation fails the request stops with the failure reasons of the
\* evaluation, no field value has been fetched and the judge has not been
\* called.
C24_PreEvaluationFirst ==
    /\ DetailStarted =>
           /\ ui_expression # Pending
           /\ Falsy(ui_expression.value) \/ is_passed = "True"
    /\ pc \notin {"idle", "done"} => ~DetailStarted /\ ~Falsy(ui_expression.value)
    /\ is_passed = "False" =>
           /\ ui_pc = "stopped"
           /\ failed_rules = failed_rules_descriptions
           /\ ~DetailStarted

\* a request stopped by a failed pre-evaluation that names its reasons
C24_Witness ==
    /\ ui_pc = "stopped"
    /\ is_passed = "False"
    /\ failed_rules # <<>>
    /\ ~DetailStarted

\* C23: a request writes to neither store: every step leaves the rows of
\* the rule catalog (Check_Rules, L1_Rules, L2_Rules, Procedure_rules) and
\* of the claim data store as they were.
C23_ReadOnlyStores ==
    [][/\ PatientData' = PatientData
       /\ Check_Rules' = Check_Rules
       /\ L1_Rules' = L1_Rules
       /\ L2_Rules' = L2_Rules
       /\ Procedure_rules' = Procedure_rules]_vars

\* no stored extraction text of the catalog writes
SelectsOnly == \A i \in 1..Len(L1_Rules.rows) : ~IsDelete(L1_Rules.rows[i].sql_query)

\* C29: on a catalog whose extraction texts only select, every check rule
\* the request has processed is reported as submitted exactly when
\* check_document_submission_status, called with the rule's description
\* and the claim as the evaluator and the gate call it, says so; and a rule
\* reported as 'Submitted: Yes' has no field entry of value 'Not submitted'.
C29_StatusAgreement ==
    SelectsOnly =>
        \A i \in 1..Len(processed_rules_output) :
            LET rule_data == processed_rules_output[i] IN
            /\ (rule_data.status_text = "Submitted: Yes")
                   = check_document_submission_status(ui_claim_id, rule_data.question)
            /\ rule_data.status_text = "Submitted: Yes" =>
                   \A j \in 1..Len(rule_data.l1_rules) :
                       rule_data.l1_rules[j].value # PyStr(<<"Not submitted">>)

====
